---- MODULE Spec2Model ----
(***************************************************************************)
(* Verification model of the ThryveIQ backend (src/backend).               *)
(*                                                                         *)
(* Dates are modelled as whole days relative to date.today(): a race date  *)
(* is the integer race_days = (race_date - today).days.                    *)
(* Floats are modelled as exact rationals (numerator, denominator); where  *)
(* the double result of the code can differ from the exact one (round() of *)
(* a quotient that lies exactly on a half) every outcome is admitted.      *)
(***************************************************************************)
EXTENDS Integers, Sequences, FiniteSets, TLC

VARIABLES
    fn_call,      \* the pure function being called and its arguments
    fn_ret,       \* the value it returned, in the field of its type
    profile,      \* generate_plan: the athlete profile it was called with
    pc,           \* generate_plan: position in the function
    weeks,        \* generate_plan: weeks = _weeks_until_race(race_date)
    week_num,     \* generate_plan: the loop variable of "for week_num in range(1, weeks + 1)"
    sessions,     \* generate_plan: the session list built so far
    fp_round,     \* the double-precision outcome of the duration arithmetic, per kind of week
    plan,         \* generate_plan: the returned dict
    first_plan,   \* generate_plan: what an earlier call with the same profile returned
    llm_pc,       \* generate_phase_sessions: position in the function
    llm_days,     \* generate_phase_sessions: days = profile["days_available"]
    phase,        \* generate_phase_sessions: the phase it was called with
    llm_week_num, \* generate_phase_sessions: the loop variable week_num
    all_sessions, \* generate_phase_sessions: the sessions kept so far
    chat_pc,      \* chat_message: position in the handler
    response_text, \* chat_message: the last response of the LLM
    tools_used,   \* chat_message: the list tools_used
    rounds,       \* chat_message: iterations of "for _ in range(3)" completed
    llm_history,  \* chat_message: the responses ollama_chat has returned so far
    executed,     \* chat_message: the tools called so far, in the order of the calls
    plans_table,  \* the rows of the table "plans"
    serial,       \* the table's sequence for id and generated_at
    gen,          \* generate: the requests in flight, their locals and responses
    calls,        \* generate: the number of requests received so far
    arch          \* architect_plan: the request, the profile given to the agent, the response

fnVars == <<fn_call, fn_ret>>
planVars == <<profile, pc, weeks, week_num, sessions, fp_round, plan, first_plan>>
llmVars == <<llm_pc, llm_days, phase, llm_week_num, all_sessions>>
chatVars == <<chat_pc, response_text, tools_used, rounds, llm_history, executed>>
genVars == <<plans_table, serial, gen, calls>>
archVars == <<arch>>
apiVars == <<chatVars, genVars, archVars>>
vars == <<fn_call, fn_ret, profile, pc, weeks, week_num, sessions, fp_round, plan, first_plan,
          llm_pc, llm_days, phase, llm_week_num, all_sessions,
          chat_pc, response_text, tools_used, rounds, llm_history, executed,
          plans_table, serial, gen, calls, arch>>

-----------------------------------------------------------------------------
(* Bounds of the model.                                                    *)

MaxRaceDays == 200    \* calculate_phases: race dates up to this many days after today
PastDays == 8         \* ... and down to this many days before today
MaxN == 10            \* _assign_zone: session counts and indexes up to this
MaxDays == 8          \* _distribute_sports: days_available up to this
MaxPlanWeeks == 8     \* generate_plan: plans of up to this many weeks
HoursDen == 2         \* weekly_hours is a multiple of 1/HoursDen hours
MaxLLMDays == 2       \* generate_phase_sessions: days_available up to this
MaxLLMWeeks == 2      \* generate_phase_sessions: phases of up to this many weeks
MaxLLMSessions == 3   \* sessions in one response of the LLM
MaxFtp == 320         \* compute_zones_math: ftp up to this many watts
MaxLthr == 200        \* compute_zones_math: lthr up to this many beats per minute
MaxPaceSeconds == 600 \* compute_zones_math: threshold paces up to this many seconds per km
MaxPaceLen == 4       \* _parse_pace_to_seconds: every string up to this length
MaxBlueprintPhases == 3 \* _parse_blueprint: phase lists up to this length
MaxTotalWeeks == 5    \* PlanBlueprint: total_weeks up to this
MaxCalls == 2         \* generate: requests received in one run

(* Limits of models/profile.py: weekly_hours <= 40, days_available <= 7.   *)
HoursMax == 40
DaysMax == 7

-----------------------------------------------------------------------------
(* Python arithmetic.                                                      *)

Max(a, b) == IF a >= b THEN a ELSE b
Min(a, b) == IF a <= b THEN a ELSE b

\* math.floor(num / den) and math.ceil(num / den), den > 0
Floor(num, den) == num \div den
Ceil(num, den) == -((-num) \div den)

\* int(num / den) in place of round(num / den)
PyRound_truncates(num, den) == num \div den

\* round(num / den), den > 0: Python rounds an exact half to the even neighbour
PyRound(num, den) ==
    LET q == num \div den
        r == num % den
    IN  IF 2 * r < den THEN q
        ELSE IF 2 * r > den THEN q + 1
        ELSE IF q % 2 = 0 THEN q ELSE q + 1

-----------------------------------------------------------------------------
(* services/phases.py                                                      *)

\* the loop "for name, length, focus in [...]: phases.append(...); week += length"
RECURSIVE LayOutPhases(_, _, _)
LayOutPhases(specs, week, phases) ==
    IF specs = <<>> THEN phases
    ELSE LET name == Head(specs)[1]
             length == Head(specs)[2]
             focus == Head(specs)[3]
         IN  LayOutPhases(Tail(specs), week + length,
                 Append(phases, [name |-> name, weeks |-> length, start_week |-> week,
                                 end_week |-> week + length - 1, focus |-> focus]))

total_weeks_of(race_days) == Max(1, race_days \div 7)

calculate_phases(race_days) ==
    LET total_weeks == total_weeks_of(race_days)
    IN  IF total_weeks <= 4 THEN
            << [name |-> "Base", weeks |-> Max(1, total_weeks - 1), start_week |-> 1,
                end_week |-> Max(1, total_weeks - 1),
                focus |-> "Build aerobic fitness and technique"],
               [name |-> "Taper", weeks |-> 1, start_week |-> total_weeks,
                end_week |-> total_weeks,
                focus |-> "Reduce volume, stay sharp for race day"] >>
        ELSE IF total_weeks <= 8 THEN
            LET taper == 1
                build == Max(2, total_weeks \div 3)
                base == total_weeks - build - taper
            IN  LayOutPhases(
                    << <<"Base", base, "Build aerobic endurance and technique foundations">>,
                       <<"Build", build, "Increase intensity, add race-pace work and longer sessions">>,
                       <<"Taper", taper, "Reduce volume, maintain intensity, prepare for race day">> >>,
                    1, <<>>)
        ELSE
            LET taper == 2
                peak == Min(3, Max(2, total_weeks \div 8))
                remaining == total_weeks - taper - peak
                build == Max(3, PyRound(remaining * 4, 10))
                base == remaining - build
            IN  LayOutPhases(
                    << <<"Base", base, "Build aerobic endurance, technique, and consistency across all three disciplines">>,
                       <<"Build", build, "Increase intensity and volume progressively, add race-specific workouts">>,
                       <<"Peak", peak, "Highest intensity block, race simulations, fine-tune pacing">>,
                       <<"Taper", taper, "Reduce volume by 40-60%, maintain intensity, rest and prepare for race day">> >>,
                    1, <<>>)

-----------------------------------------------------------------------------
(* services/plan_engine.py                                                 *)

\* a week that starts on Sunday
DAYS_OF_WEEK_from_Sunday ==
    <<"Sunday", "Monday", "Tuesday", "Wednesday", "Thursday", "Friday", "Saturday">>

DAYS_OF_WEEK == <<"Monday", "Tuesday", "Wednesday", "Thursday", "Friday", "Saturday", "Sunday">>

\* "return delta.days // 7", without the floor of one week
_weeks_until_race_unclamped(race_days) == race_days \div 7

\* return max(1, delta.days // 7), with delta = race_date - today
_weeks_until_race(race_days) == Max(1, race_days \div 7)

\* "ratio < 0.85" in place of "ratio < 0.90"
_assign_zone_early_threshold(session_index, total_sessions, is_recovery_week) ==
    IF is_recovery_week THEN (IF session_index % 3 = 0 THEN 1 ELSE 2)
    ELSE LET n == Max(total_sessions, 1)
         IN  IF 100 * session_index < 70 * n THEN 2
             ELSE IF 100 * session_index < 85 * n THEN 3
             ELSE 4

\* "ratio <= 0.70" in place of "ratio < 0.70"
_assign_zone_inclusive(session_index, total_sessions, is_recovery_week) ==
    IF is_recovery_week THEN (IF session_index % 3 = 0 THEN 1 ELSE 2)
    ELSE LET n == Max(total_sessions, 1)
         IN  IF 100 * session_index <= 70 * n THEN 2
             ELSE IF 100 * session_index < 90 * n THEN 3
             ELSE 4

\* ratio = session_index / max(total_sessions, 1); ratio < 0.70, ratio < 0.90.
\* The double nearest to i/n is below the double 0.7 exactly when i/n < 7/10
\* (i/n = 7/10 divides to the very double that the literal 0.70 denotes).
_assign_zone(session_index, total_sessions, is_recovery_week) ==
    IF is_recovery_week THEN (IF session_index % 3 = 0 THEN 1 ELSE 2)
    ELSE LET n == Max(total_sessions, 1)
         IN  IF 100 * session_index < 70 * n THEN 2
             ELSE IF 100 * session_index < 90 * n THEN 3
             ELSE 4

ZONE_LABELS(zone) ==
    CASE zone = 1 -> "Recovery"
      [] zone = 2 -> "Aerobic"
      [] zone = 3 -> "Tempo"
      [] zone = 4 -> "Threshold"
      [] zone = 5 -> "VO2max"

\* PLACEHOLDER_DESCRIPTIONS.get((sport, zone), f"Zone {zone} {sport} session. ...")
PLACEHOLDER_DESCRIPTIONS(sport, zone) ==
    CASE sport = "swim" /\ zone = 1 -> "Easy recovery swim. Focus on smooth technique and relaxed breathing."
      [] sport = "swim" /\ zone = 2 -> "Aerobic swim. Focus on bilateral breathing and a long catch. Keep effort conversational."
      [] sport = "swim" /\ zone = 3 -> "Tempo swim. Maintain steady effort with good form. Push pace slightly above comfortable."
      [] sport = "swim" /\ zone = 4 -> "Threshold swim intervals. Hard effort with structured rest. Focus on holding pace."
      [] sport = "swim" /\ zone = 5 -> "VO2max swim set. Short, fast repeats with full recovery between efforts."
      [] sport = "bike" /\ zone = 1 -> "Easy recovery spin. Keep cadence light and legs loose."
      [] sport = "bike" /\ zone = 2 -> "Aerobic endurance ride. Steady effort, should be able to hold a conversation."
      [] sport = "bike" /\ zone = 3 -> "Tempo ride. Maintain steady power in Zone 3. Practice race-day nutrition."
      [] sport = "bike" /\ zone = 4 -> "Threshold intervals on the bike. Sustained hard effort near FTP."
      [] sport = "bike" /\ zone = 5 -> "VO2max bike intervals. Short, maximal efforts with recovery between."
      [] sport = "run" /\ zone = 1 -> "Easy recovery jog. Keep it very relaxed, walk breaks are fine."
      [] sport = "run" /\ zone = 2 -> "Easy aerobic run. Conversational pace, focus on cadence ~170-180 spm."
      [] sport = "run" /\ zone = 3 -> "Tempo run. Comfortably hard effort, steady pace throughout."
      [] sport = "run" /\ zone = 4 -> "Threshold run intervals. Hard effort at lactate threshold pace."
      [] sport = "run" /\ zone = 5 -> "VO2max run repeats. Fast intervals with full recovery."
      [] OTHER -> "Zone " \o ToString(zone) \o " " \o sport
                  \o " session. Maintain target intensity throughout."

\* seq[:n] for n >= 0
Take(seq, n) == SubSeq(seq, 1, Min(n, Len(seq)))

\* [x] * n
Repeat(x, n) == [i \in 1..Max(n, 0) |-> x]

CountOf(seq, x) == Cardinality({i \in 1..Len(seq) : seq[i] = x})

\* one pass of "for s in [weakest, middle, strongest]: if buckets[s]: result.append(buckets[s].pop())";
\* a bucket holds copies of its own key, so it is modelled by its length
RECURSIVE InterleavePass(_, _, _)
InterleavePass(order, buckets, result) ==
    IF order = <<>> THEN <<buckets, result>>
    ELSE LET s == Head(order)
         IN  IF buckets[s] > 0
             THEN InterleavePass(Tail(order), [buckets EXCEPT ![s] = @ - 1], Append(result, s))
             ELSE InterleavePass(Tail(order), buckets, result)

\* the buckets emptied one after the other, with no round robin
Interleave_bucket_by_bucket(order, buckets, result) ==
    result \o Repeat(order[1], buckets[order[1]]) \o Repeat(order[2], buckets[order[2]])
           \o Repeat(order[3], buckets[order[3]])

\* "while any(buckets[s] for s in buckets): <one pass>"
RECURSIVE Interleave(_, _, _)
Interleave(order, buckets, result) ==
    IF \A s \in DOMAIN buckets : buckets[s] = 0 THEN result
    ELSE LET after == InterleavePass(order, buckets, result)
         IN  Interleave(order, after[1], after[2])

\* the round robin started at the strongest discipline
_distribute_sports_strongest_first(days_available, strongest, weakest) ==
    LET sports == <<"swim", "bike", "run">>
        middle == Head(SelectSeq(sports, LAMBDA s : s # strongest /\ s # weakest))
        weakest_count == Ceil(days_available * 12, 30)
        strongest_count == Max(1, Floor(days_available * 8, 30))
        middle_count == Max(1, days_available - weakest_count - strongest_count)
        distribution == Repeat(weakest, weakest_count) \o Repeat(middle, middle_count)
                            \o Repeat(strongest, strongest_count)
        trimmed == Take(distribution, days_available)
        padded == trimmed \o Repeat(weakest, days_available - Len(trimmed))
        buckets == [s \in {weakest, middle, strongest} |-> CountOf(padded, s)]
        result == Interleave(<<strongest, middle, weakest>>, buckets, <<>>)
    IN  Take(result, days_available)

\* days_available / 3 * 1.2 and days_available / 3 * 0.8 are the exact 12d/30 and 8d/30:
\* for d in 0..9 the doubles fall on the same side of every integer as the exact values
_distribute_sports(days_available, strongest, weakest) ==
    LET sports == <<"swim", "bike", "run">>
        middle == Head(SelectSeq(sports, LAMBDA s : s # strongest /\ s # weakest))
        weakest_count == Ceil(days_available * 12, 30)
        strongest_count == Max(1, Floor(days_available * 8, 30))
        middle_count == Max(1, days_available - weakest_count - strongest_count)
        distribution == Repeat(weakest, weakest_count) \o Repeat(middle, middle_count)
                            \o Repeat(strongest, strongest_count)
        trimmed == Take(distribution, days_available)
        padded == trimmed \o Repeat(weakest, days_available - Len(trimmed))
        buckets == [s \in {weakest, middle, strongest} |-> CountOf(padded, s)]
        result == Interleave(<<weakest, middle, strongest>>, buckets, <<>>)
    IN  Take(result, days_available)

\* sport_weight.get(sport, 1.0) and zone_weight.get(zone, 1.0), in hundredths
sport_weight(sport) ==
    CASE sport = "swim" -> 75
      [] sport = "bike" -> 125
      [] sport = "run" -> 100
      [] OTHER -> 100

zone_weight(zone) ==
    CASE zone = 1 -> 70
      [] zone = 2 -> 100
      [] zone = 3 -> 85
      [] zone = 4 -> 70
      [] zone = 5 -> 55
      [] OTHER -> 100

RECURSIVE SumSeq(_)
SumSeq(seq) == IF seq = <<>> THEN 0 ELSE Head(seq) + SumSeq(Tail(seq))

\* int(num / den) in place of round(num / den)
FloatRound_truncates(num, den, up) == num \div den

\* round(num / den) computed in doubles, den > 0. Off a half it is the nearest integer.
\* On an exact half the double quotient carries the representation error of its
\* operands and lands on either side: lower neighbour for up = 0, upper for up = 1.
FloatRound(num, den, up) ==
    LET q == num \div den
        r == num % den
    IN  IF 2 * r < den THEN q
        ELSE IF 2 * r > den THEN q + 1
        ELSE q + up

\* the rounding without the clamp
rounded_unclamped(fives) == fives * 5

\* rounded = max(20, min(180, round(minutes / 5) * 5))
rounded(fives) == Max(20, Min(180, fives * 5))

\* weekly_hours is the rational hours_num / hours_den. The result is the set of
\* duration lists the double arithmetic can produce: one list unless a quotient
\* minutes / 5 is an exact half; equal weights always round the same way.
_compute_week_durations(sport_order, hours_num, hours_den, zones) ==
    LET n == Min(Len(sport_order), Len(zones))
        raw_weights == [i \in 1..n |-> sport_weight(sport_order[i]) * zone_weight(zones[i])]
        total_weight == SumSeq(raw_weights)
        fives(w, up) == FloatRound(w * hours_num * 60, total_weight * hours_den * 5, up)
    IN  { [i \in 1..n |-> rounded(fives(raw_weights[i], up[raw_weights[i]]))] :
              up \in [{raw_weights[i] : i \in 1..n} -> {0, 1}] }

-----------------------------------------------------------------------------
(* generate_plan(profile), one step per iteration of its loop over the weeks. *)

Unrounded == [known |-> FALSE, durations |-> <<>>]

\* every week five minutes longer than the week before
WeekSessions_progressive(wk, training_days, sport_order, week_zones, week_durations) ==
    [k \in 1..Min(Len(training_days), Len(sport_order)) |->
        [id |-> "w" \o ToString(wk) \o "_d" \o ToString(k) \o "_" \o sport_order[k],
         week |-> wk,
         day |-> training_days[k],
         sport |-> sport_order[k],
         duration_minutes |-> week_durations[k] + 5 * wk,
         zone |-> week_zones[k],
         zone_label |-> ZONE_LABELS(week_zones[k]),
         description |-> PLACEHOLDER_DESCRIPTIONS(sport_order[k], week_zones[k])]]

\* "sessions.append({...})" for each (day_name, sport) of the week
WeekSessions(wk, training_days, sport_order, week_zones, week_durations) ==
    [k \in 1..Min(Len(training_days), Len(sport_order)) |->
        [id |-> "w" \o ToString(wk) \o "_d" \o ToString(k) \o "_" \o sport_order[k],
         week |-> wk,
         day |-> training_days[k],
         sport |-> sport_order[k],
         duration_minutes |-> week_durations[k],
         zone |-> week_zones[k],
         zone_label |-> ZONE_LABELS(week_zones[k]),
         description |-> PLACEHOLDER_DESCRIPTIONS(sport_order[k], week_zones[k])]]

\* a recovery week every third week
is_recovery_every_third(wk) == wk % 3 = 0

\* is_recovery = week_num % 4 == 0
is_recovery(wk) == wk % 4 = 0

\* "weekly_hours / 0.6" in place of "weekly_hours * 0.6"
week_hours_divided(weekly_hours, recovery) ==
    IF recovery THEN <<weekly_hours * 10, HoursDen * 6>> ELSE <<weekly_hours, HoursDen>>

\* week_hours = weekly_hours * 0.6 if is_recovery else weekly_hours, as <<numerator, denominator>>
\* of hours; weekly_hours counts 1/HoursDen hours
week_hours(weekly_hours, recovery) ==
    IF recovery THEN <<weekly_hours * 6, HoursDen * 10>> ELSE <<weekly_hours, HoursDen>>

\* a list that outlives the call, as a module-level or default-argument list would
new_sessions_kept(old) == old

\* sessions = []
new_sessions(old) == <<>>

\* race_date is a date, or a string that date.fromisoformat accepts
generate_plan_enter ==
    /\ pc = "call"
    /\ profile.iso_format
    /\ weeks' = _weeks_until_race(profile.race_days)
    /\ week_num' = 1
    /\ sessions' = new_sessions(sessions)
    /\ pc' = "loop"
    /\ UNCHANGED <<profile, fp_round, plan, first_plan, fnVars, llmVars, apiVars>>

\* race_date is a string that date.fromisoformat rejects: ValueError leaves generate_plan
generate_plan_raises ==
    /\ pc = "call"
    /\ ~profile.iso_format
    /\ pc' = "raised"
    /\ UNCHANGED <<profile, weeks, week_num, sessions, fp_round, plan, first_plan,
                   fnVars, llmVars, apiVars>>

generate_plan_week ==
    /\ pc = "loop"
    /\ week_num <= weeks
    /\ LET recovery == is_recovery(week_num)
           days_available == profile.days_available
           hours == week_hours(profile.weekly_hours, recovery)
           sport_order == _distribute_sports(days_available, profile.strongest_discipline,
                                             profile.weakest_discipline)
           training_days == Take(DAYS_OF_WEEK, days_available)
           week_zones == [i \in 1..days_available |->
                              _assign_zone(i - 1, days_available, recovery)]
           \* the same arguments give the same doubles in every week of one call
           outcomes == IF fp_round[recovery].known
                       THEN {fp_round[recovery].durations}
                       ELSE _compute_week_durations(sport_order, hours[1], hours[2], week_zones)
       IN  \E week_durations \in outcomes :
              /\ sessions' = sessions \o WeekSessions(week_num, training_days, sport_order,
                                                      week_zones, week_durations)
              /\ fp_round' = [fp_round EXCEPT ![recovery] =
                                 [known |-> TRUE, durations |-> week_durations]]
    /\ week_num' = week_num + 1
    /\ UNCHANGED <<profile, pc, weeks, plan, first_plan, fnVars, llmVars, apiVars>>

generate_plan_return ==
    /\ pc = "loop"
    /\ week_num > weeks
    /\ plan' = [weeks_until_race |-> weeks, sessions |-> sessions]
    /\ pc' = "done"
    /\ UNCHANGED <<profile, weeks, week_num, sessions, fp_round, first_plan, fnVars, llmVars, apiVars>>

NoPlan == [weeks_until_race |-> 0, sessions |-> <<>>]

\* A second call of generate_plan with the same profile on the same day. The doubles of
\* the first call are kept: the same operands give the same double in every call.
generate_plan_again ==
    /\ pc = "done"
    /\ first_plan = NoPlan
    /\ first_plan' = plan
    /\ plan' = NoPlan
    /\ pc' = "call"
    /\ UNCHANGED <<profile, weeks, week_num, sessions, fp_round, fnVars, llmVars, apiVars>>

Disciplines == {"swim", "bike", "run"}

\* the race dates of the profiles: in the past, today, and 1, 4 and MaxPlanWeeks weeks ahead
RaceDays == {-PastDays, 0, 13, 30, 7 * MaxPlanWeeks + 3}

\* profiles as models/profile.py admits them, with distinct disciplines
Profiles ==
    { [race_days |-> r, days_available |-> d, weekly_hours |-> h,
       strongest_discipline |-> s, weakest_discipline |-> w, iso_format |-> TRUE] :
          r \in RaceDays, d \in 1..DaysMax, h \in 1..(HoursMax * HoursDen),
          s \in Disciplines, w \in Disciplines }

\* what a caller can pass to generate_plan, which takes a plain dict: also no training
\* days or more than a week has, no or negative hours, one discipline named twice,
\* a race date that is no ISO date
AnyHours == {-1, 0, 1, 7, 10, HoursMax * HoursDen}

AnyProfiles ==
    { [race_days |-> r, days_available |-> d, weekly_hours |-> h,
       strongest_discipline |-> s, weakest_discipline |-> w, iso_format |-> iso] :
          r \in RaceDays, d \in 0..MaxDays, h \in AnyHours,
          s \in Disciplines, w \in Disciplines, iso \in BOOLEAN }

NoCall == [fn |-> "none"]

NoZones == [power_zones |-> <<>>, hr_zones |-> <<>>, pace_zones |-> <<>>,
            inputs |-> [ftp |-> 0, lthr |-> 0, css |-> <<>>]]

NoBlueprint == [phases |-> <<>>, total_weeks |-> 0]

\* nothing returned and nothing raised: no phases, no zone, no sports, no seconds, no zone
\* tables, no blueprint
NoReturn == [raised |-> FALSE, phases |-> <<>>, zone |-> 0, sports |-> <<>>, seconds |-> 0,
             zones |-> NoZones, blueprint |-> NoBlueprint]

FnIdle ==
    /\ fn_call = NoCall
    /\ fn_ret = NoReturn

NoPhase == [name |-> "", weeks |-> 0, start_week |-> 0, end_week |-> 0, focus |-> ""]

LLMIdle ==
    /\ llm_pc = "idle"
    /\ llm_days = 0
    /\ phase = NoPhase
    /\ llm_week_num = 0
    /\ all_sessions = <<>>

NoProfile == [race_days |-> 0, days_available |-> 0, weekly_hours |-> 0,
              strongest_discipline |-> "", weakest_discipline |-> "", iso_format |-> TRUE]

PlanIdle ==
    /\ profile = NoProfile
    /\ pc = "idle"
    /\ weeks = 0
    /\ week_num = 0
    /\ sessions = <<>>
    /\ fp_round = [b \in BOOLEAN |-> Unrounded]
    /\ plan = NoPlan
    /\ first_plan = NoPlan

\* chat_message not called: no response of the LLM, no tool
NoResponse == [kind |-> "none", tool |-> "", hashable |-> TRUE]

ChatIdle ==
    /\ chat_pc = "idle"
    /\ response_text = NoResponse
    /\ tools_used = <<>>
    /\ rounds = 0
    /\ llm_history = <<>>
    /\ executed = <<>>

\* no row of the table "plans"
NoRow == [id |-> 0, user_id |-> "", generated_at |-> 0, weeks_until_race |-> 0,
          phases |-> <<>>, sessions |-> <<>>]

\* no request in this slot: the locals of generate before the handler runs
NoRequest == [pc |-> "idle", user_id |-> "", has_max_weeks |-> FALSE, max_weeks |-> 0,
              all_sessions |-> <<>>, llm_unusable |-> FALSE, fallback |-> FALSE,
              previews |-> FALSE, status |-> 0, detail |-> "", saved |-> NoRow,
              before |-> NoRow]

\* the requests of generate that are in flight at one time
Requests == {1, 2}

GenIdle ==
    /\ plans_table = {}
    /\ serial = 0
    /\ gen = [r \in Requests |-> NoRequest]
    /\ calls = 0

\* overrides = {}: a dict with none of the profile's keys
NoOverrides == [keys |-> {}, race_days |-> 0, weekly_hours |-> 0, days_available |-> 0]

NoArchitect == [pc |-> "idle", user_id |-> "", overrides |-> NoOverrides,
                agent_profile |-> NoProfile, status |-> 0, blueprint |-> NoBlueprint]

ArchIdle == arch = NoArchitect

ApiIdle ==
    /\ ChatIdle
    /\ GenIdle
    /\ ArchIdle

InitPlan ==
    /\ profile \in {p \in Profiles : p.strongest_discipline # p.weakest_discipline}
    /\ pc = "call"
    /\ weeks = 0
    /\ week_num = 0
    /\ sessions = <<>>
    /\ fp_round = [b \in BOOLEAN |-> Unrounded]
    /\ plan = NoPlan
    /\ first_plan = NoPlan
    /\ FnIdle
    /\ ApiIdle
    /\ LLMIdle

NextPlan ==
    \/ generate_plan_enter
    \/ generate_plan_week
    \/ generate_plan_return
    \/ generate_plan_again

SpecPlan == InitPlan /\ [][NextPlan]_vars

\* generate_plan called with any dict
InitPlanAny ==
    /\ profile \in AnyProfiles
    /\ pc = "call"
    /\ weeks = 0
    /\ week_num = 0
    /\ sessions = <<>>
    /\ fp_round = [b \in BOOLEAN |-> Unrounded]
    /\ plan = NoPlan
    /\ first_plan = NoPlan
    /\ FnIdle
    /\ ApiIdle
    /\ LLMIdle

NextPlanAny ==
    \/ NextPlan
    \/ generate_plan_raises

SpecPlanAny == InitPlanAny /\ [][NextPlanAny]_vars

-----------------------------------------------------------------------------
(* services/llm.py                                                         *)

\* A session of the LLM's JSON: a dict of which the keys in "absent" are missing,
\* or a value that is no dict.
Get(s, key, default) == IF key \in s.absent THEN default ELSE s[key]

\* str(...).lower() on the sport names the responses use
Lower(str) ==
    CASE str = "Run" -> "run"
      [] str = "Swim" -> "swim"
      [] str = "Bike" -> "bike"
      [] OTHER -> str

llm_zone_labels(zone) ==
    CASE zone = 1 -> "Recovery"
      [] zone = 2 -> "Aerobic"
      [] zone = 3 -> "Tempo"
      [] zone = 4 -> "Threshold"
      [] zone = 5 -> "VO2max"
      [] OTHER -> "Aerobic"

RECURSIVE ValidateLoop(_, _, _)
ValidateLoop(raw, ph, cleaned) ==
    IF raw = <<>> THEN cleaned
    ELSE LET s == Head(raw)
             sport == Lower(Get(s, "sport", ""))
             zone0 == Get(s, "zone", 2)
             zone == IF zone0 \in {1, 2, 3, 4, 5} THEN zone0 ELSE 2
             week == Get(s, "week", ph.start_week)
         IN  IF ~s.is_dict THEN ValidateLoop(Tail(raw), ph, cleaned)
             ELSE IF sport \notin {"swim", "bike", "run"} THEN ValidateLoop(Tail(raw), ph, cleaned)
             ELSE IF week < ph.start_week \/ week > ph.end_week
                  THEN ValidateLoop(Tail(raw), ph, cleaned)
             ELSE ValidateLoop(Tail(raw), ph, Append(cleaned,
                      [id |-> Get(s, "id", "w" \o ToString(week) \o "_d"
                                            \o ToString(Len(cleaned) + 1) \o "_" \o sport),
                       week |-> week,
                       day |-> Get(s, "day", "Monday"),
                       sport |-> sport,
                       duration_minutes |-> Max(20, Min(180, Get(s, "duration_minutes", 60))),
                       zone |-> zone,
                       zone_label |-> llm_zone_labels(zone),
                       description |-> Get(s, "description",
                                           "Zone " \o ToString(zone) \o " " \o sport \o " session.")]))

_validate_sessions(raw, ph) == ValidateLoop(raw, ph, <<>>)

\* training_days.index(day) + 1
DayIndex(training_days, day) ==
    CHOOSE k \in 1..Len(training_days) :
        training_days[k] = day /\ \A j \in 1..(k - 1) : training_days[j] # day

\* no suffix for the second session of a day
suffix_never(count) == ""

\* suffix = "_2" if count == 2 else ""
suffix(count) == IF count = 2 THEN "_2" ELSE ""

\* "for s in week_sessions: ..." with day_counts.get(day, 0) kept as a total function
RECURSIVE AssignLoop(_, _, _, _, _)
AssignLoop(week_sessions, training_days, wk, day_counts, assigned) ==
    IF week_sessions = <<>> THEN assigned
    ELSE LET s == Head(week_sessions)
             day == IF \E k \in 1..Len(training_days) : training_days[k] = s.day
                    THEN s.day ELSE training_days[1]
             count == day_counts[day] + 1
         IN  IF count > 2
             THEN AssignLoop(Tail(week_sessions), training_days, wk, day_counts, assigned)
             ELSE AssignLoop(Tail(week_sessions), training_days, wk,
                      [day_counts EXCEPT ![day] = count],
                      Append(assigned,
                          [s EXCEPT !.day = day,
                                    !.id = "w" \o ToString(wk) \o "_d"
                                           \o ToString(DayIndex(training_days, day))
                                           \o "_" \o s.sport \o suffix(count)]))

\* The sessions a response may hold for week wk: well-formed ones, one on a day
\* that is no training day, one that needs its sport, zone and duration repaired,
\* an unknown sport, a session of another week, and a dict with only "sport".
LLMSession(sport, day, wk, zone, minutes, absent) ==
    [is_dict |-> TRUE, absent |-> absent, id |-> "w" \o ToString(wk) \o "_d1_swim",
     week |-> wk, day |-> day, sport |-> sport, duration_minutes |-> minutes,
     zone |-> zone, description |-> "Zone 2 swim session."]

LLMSessionPool(wk) ==
    { LLMSession("swim", "Monday", wk, 2, 60, {}),
      LLMSession("swim", "Funday", wk, 2, 60, {}),
      LLMSession("Run", "Tuesday", wk, 7, 500, {"description"}),
      LLMSession("yoga", "Monday", wk, 2, 60, {}),
      LLMSession("swim", "Monday", wk + 1, 2, 60, {}),
      LLMSession("swim", "", 0, 0, 0, {"id", "week", "day", "duration_minutes", "zone", "description"}) }

SeqsUpTo(S, n) == UNION {[1..k -> S] : k \in 0..n}

\* What "await ollama_chat(...)" and _extract_json give for one week: an exception,
\* JSON without a usable "sessions" key, or a list of sessions.
LLMResponses(wk) ==
    {[kind |-> "raises", sessions |-> <<>>], [kind |-> "no_sessions", sessions |-> <<>>]}
        \cup {[kind |-> "sessions", sessions |-> ss] : ss \in SeqsUpTo(LLMSessionPool(wk), MaxLLMSessions)}

generate_phase_sessions_enter ==
    /\ llm_pc = "call"
    /\ llm_week_num' = phase.start_week
    /\ all_sessions' = <<>>
    /\ llm_pc' = "loop"
    /\ UNCHANGED <<llm_days, phase, planVars, fnVars, apiVars>>

\* one iteration of "for week_num in range(phase['start_week'], phase['end_week'] + 1)"
generate_phase_sessions_week ==
    /\ llm_pc = "loop"
    /\ llm_week_num <= phase.end_week
    /\ \E response \in LLMResponses(llm_week_num) :
          LET training_days == Take(DAYS_OF_WEEK, llm_days)
              week_phase == [start_week |-> llm_week_num, end_week |-> llm_week_num,
                             name |-> phase.name, weeks |-> 1, focus |-> phase.focus]
              week_sessions == _validate_sessions(response.sessions, week_phase)
              assigned == AssignLoop(week_sessions, training_days, llm_week_num,
                                     [d \in {training_days[k] : k \in 1..Len(training_days)} |-> 0],
                                     <<>>)
          IN  \/ /\ response.kind = "sessions"
                 /\ all_sessions' = all_sessions \o assigned
              \/ /\ response.kind = "no_sessions"
                 /\ all_sessions' = all_sessions
              \/ /\ response.kind = "raises"
                 /\ all_sessions' = all_sessions
    /\ llm_week_num' = llm_week_num + 1
    /\ UNCHANGED <<llm_pc, llm_days, phase, planVars, fnVars, apiVars>>

generate_phase_sessions_return ==
    /\ llm_pc = "loop"
    /\ llm_week_num > phase.end_week
    /\ llm_pc' = "done"
    /\ UNCHANGED <<llm_days, phase, llm_week_num, all_sessions, planVars, fnVars, apiVars>>

\* the phases generate_phase_sessions is called with: a first phase of calculate_phases,
\* its end_week capped by the caller (possibly below its start_week)
LLMPhases ==
    { [name |-> "Base", weeks |-> n, start_week |-> 1, end_week |-> e,
       focus |-> "Build aerobic fitness and technique"] :
          n \in 1..MaxLLMWeeks, e \in 0..MaxLLMWeeks }

InitLLM ==
    /\ llm_pc = "call"
    /\ llm_days \in 1..MaxLLMDays
    /\ phase \in {ph \in LLMPhases : ph.end_week <= ph.weeks}
    /\ llm_week_num = 0
    /\ all_sessions = <<>>
    /\ FnIdle
    /\ ApiIdle
    /\ PlanIdle

NextLLM ==
    \/ generate_phase_sessions_enter
    \/ generate_phase_sessions_week
    \/ generate_phase_sessions_return

SpecLLM == InitLLM /\ [][NextLLM]_vars

\* a plan's sessions come from generate_plan or from generate_phase_sessions
InitSessions ==
    \/ InitPlan
    \/ InitLLM

SpecSessions == InitSessions /\ [][NextPlan \/ NextLLM]_vars

-----------------------------------------------------------------------------
(* services/tools/compute_zones.py                                         *)
(* A Python string is modelled as the sequence of its characters.          *)

Digits == <<"0", "1", "2", "3", "4", "5", "6", "7", "8", "9">>

IsDigit(c) == \E n \in 1..10 : Digits[n] = c

DigitValue(c) == (CHOOSE n \in 1..10 : Digits[n] = c) - 1

\* str.strip(): the blanks at both ends removed
RECURSIVE lstrip(_)
lstrip(str) == IF str # <<>> /\ Head(str) = " " THEN lstrip(Tail(str)) ELSE str

RECURSIVE rstrip(_)
rstrip(str) ==
    IF str # <<>> /\ str[Len(str)] = " " THEN rstrip(SubSeq(str, 1, Len(str) - 1)) ELSE str

strip(str) == rstrip(lstrip(str))

\* str.split(":"): the parts between the colons, parts being those found so far and
\* part the one being read
RECURSIVE SplitLoop(_, _, _)
SplitLoop(str, parts, part) ==
    IF str = <<>> THEN Append(parts, part)
    ELSE IF Head(str) = ":" THEN SplitLoop(Tail(str), Append(parts, part), <<>>)
    ELSE SplitLoop(Tail(str), parts, Append(part, Head(str)))

split(str) == SplitLoop(str, <<>>, <<>>)

RECURSIVE DigitsValue(_, _)
DigitsValue(digits, acc) ==
    IF digits = <<>> THEN acc
    ELSE DigitsValue(Tail(digits), 10 * acc + DigitValue(Head(digits)))

\* int(str): blanks around, one optional sign, then decimal digits; ValueError otherwise.
\* (The strings of the model hold no underscore and no digit outside 0..9.)
int(str) ==
    LET t == strip(str)
        signed == t # <<>> /\ Head(t) \in {"+", "-"}
        digits == IF signed THEN Tail(t) ELSE t
    IN  IF digits = <<>> \/ \E i \in 1..Len(digits) : ~IsDigit(digits[i])
        THEN [raised |-> TRUE, value |-> 0]
        ELSE [raised |-> FALSE, value |-> IF signed /\ Head(t) = "-" THEN -DigitsValue(digits, 0)
                                          ELSE DigitsValue(digits, 0)]

\* _parse_pace_to_seconds(pace): raised for the ValueError of line 16 or of int()
_parse_pace_to_seconds(pace) ==
    LET parts == split(strip(pace))
    IN  IF Len(parts) # 2 THEN [raised |-> TRUE, value |-> 0]
        ELSE LET minutes == int(parts[1])
                 seconds == int(parts[2])
             IN  IF minutes.raised \/ seconds.raised THEN [raised |-> TRUE, value |-> 0]
                 ELSE [raised |-> FALSE, value |-> minutes.value * 60 + seconds.value]

\* str(n) of a natural number
RECURSIVE NatStr(_)
NatStr(n) == IF n < 10 THEN <<Digits[n + 1]>> ELSE Append(NatStr(n \div 10), Digits[(n % 10) + 1])

\* f"{m}" of an integer
IntStr(n) == IF n < 0 THEN <<"-">> \o NatStr(-n) ELSE NatStr(n)

\* _seconds_to_pace(seconds): f"{m}:{s:02d}" with m = seconds // 60, s = seconds % 60
_seconds_to_pace(seconds) ==
    LET m == seconds \div 60
        s == seconds % 60
    IN  IntStr(m) \o <<":">> \o <<Digits[(s \div 10) + 1], Digits[(s % 10) + 1]>>

\* Python's None
None == "None"

\* the product x * 0.pct lies exactly between two integers
IsTie(x, pct) == (x * pct) % 100 = 50

\* round(x * 0.pct): up tells for each exact half which neighbour the double product rounds to
RoundPercent(x, pct, up) ==
    FloatRound(x * pct, 100, IF IsTie(x, pct) THEN up[<<x, pct>>] ELSE 0)

\* heart-rate bounds in percent of lthr with Z4 reaching up to lthr itself
HR_PERCENT_closed_at_lthr == <<<<0, 84>>, <<85, 89>>, <<90, 94>>, <<95, 100>>, <<100, 0>>>>

\* the <<min, max>> percentages of lthr in hr_zones, Z1..Z5 (0 where the bound is None)
HR_PERCENT == <<<<0, 84>>, <<85, 89>>, <<90, 94>>, <<95, 99>>, <<100, 0>>>>

HR_LABELS == <<"Recovery", "Aerobic", "Tempo", "Threshold", "VO2max">>

\* the <<min, max>> percentages of ftp in power_zones, Z1..Z5
POWER_PERCENT == <<<<0, 55>>, <<56, 75>>, <<76, 90>>, <<91, 105>>, <<106, 0>>>>

POWER_LABELS == <<"Recovery", "Endurance", "Tempo", "Threshold", "VO2max+">>

PACE_LABELS == <<"Recovery", "Aerobic", "Tempo", "Threshold", "VO2max">>

\* hr_zones and power_zones: the dict of Z1..Z5 as a sequence
ZoneTable(x, percent, labels, up) ==
    [k \in 1..5 |->
        [label |-> labels[k],
         min |-> IF k = 1 THEN None ELSE RoundPercent(x, percent[k][1], up),
         max |-> IF k = 5 THEN None ELSE RoundPercent(x, percent[k][2], up)]]

pace_zones(css, css_sec, up) ==
    LET pace(pct) == _seconds_to_pace(RoundPercent(css_sec, pct, up))
    IN  << [label |-> PACE_LABELS[1], min_pace |-> None, max_pace |-> pace(125)],
           [label |-> PACE_LABELS[2], min_pace |-> pace(125), max_pace |-> pace(110)],
           [label |-> PACE_LABELS[3], min_pace |-> pace(110), max_pace |-> pace(100)],
           [label |-> PACE_LABELS[4], min_pace |-> pace(105), max_pace |-> css],
           [label |-> PACE_LABELS[5], min_pace |-> pace(95), max_pace |-> None] >>

\* ftp = 200, lthr = 155
default_ftp == 200
default_lthr == 155

\* a default pace of 6:00 per km
default_css_six == <<"6", ":", "0", "0">>

\* css = "5:00"
default_css == <<"5", ":", "0", "0">>

PercentsUsed == {84, 85, 89, 90, 94, 95, 99, 100, 55, 56, 75, 76, 91, 105, 106, 125, 110}

\* compute_zones_math(ftp, lthr, css): the set of results the double arithmetic can
\* produce (one unless a product is an exact half), or the ValueError of the parsing
compute_zones_math(ftp, lthr, css) ==
    LET lthr1 == IF lthr <= 0 THEN default_lthr ELSE lthr
        ftp1 == IF ftp <= 0 THEN default_ftp ELSE ftp
        css1 == IF css = <<>> \/ strip(css) = <<>> THEN default_css ELSE css
        css_sec == _parse_pace_to_seconds(css1)
        ties == {t \in {lthr1, ftp1, css_sec.value} \X PercentsUsed : IsTie(t[1], t[2])}
    IN  IF css_sec.raised THEN {[raised |-> TRUE, zones |-> NoZones]}
        ELSE { [raised |-> FALSE,
                zones |-> [power_zones |-> ZoneTable(ftp1, POWER_PERCENT, POWER_LABELS, up),
                           hr_zones |-> ZoneTable(lthr1, HR_PERCENT, HR_LABELS, up),
                           pace_zones |-> pace_zones(css1, css_sec.value, up),
                           inputs |-> [ftp |-> ftp1, lthr |-> lthr1, css |-> css1]]] :
                   up \in [ties -> {0, 1}] }

-----------------------------------------------------------------------------
(* models/blueprint.py and services/agents/plan_architect.py               *)

\* A phase of the agent's JSON is a dict: phase_name sits under the key name_key
\* ("phase_name", the alias "name", or "" when the dict has no name at all), weeks
\* is present or not. The fields the validation of a phase does not read for
\* total_weeks (intensity_distribution_target, weekly_structure_template, focus)
\* are present and well-formed.
RawPhase(name_key, phase_name, has_weeks, phase_weeks) ==
    [name_key |-> name_key, phase_name |-> phase_name, has_weeks |-> has_weeks,
     weeks |-> phase_weeks]

\* "if 'phase_name' not in out: for alt in ('name', ...): out['phase_name'] = out.pop(alt)"
_normalize_phase(p) ==
    IF p.name_key = "name" THEN [p EXCEPT !.name_key = "phase_name"] ELSE p

\* p.get("phase_name", "") and p.get("weeks", 0)
get_phase_name(p) == IF p.name_key = "phase_name" THEN p.phase_name ELSE ""
get_weeks(p) == IF p.has_weeks THEN p.weeks ELSE 0

\* "for p in data['phases']: if name not in seen_names: seen_names.add(name); deduped.append(p)"
RECURSIVE DedupeLoop(_, _, _)
DedupeLoop(phases, seen_names, deduped) ==
    IF phases = <<>> THEN deduped
    ELSE LET name == get_phase_name(Head(phases))
         IN  IF name \notin seen_names
             THEN DedupeLoop(Tail(phases), seen_names \cup {name}, Append(deduped, Head(phases)))
             ELSE DedupeLoop(Tail(phases), seen_names, deduped)

\* PhaseBlueprint: phase_name and weeks are required, weeks >= 1
PhaseBlueprint(p) ==
    [raised |-> p.name_key # "phase_name" \/ ~p.has_weeks \/ p.weeks < 1,
     value |-> [phase_name |-> p.phase_name, weeks |-> p.weeks]]

\* a validator that only asks for total_weeks to cover the phases
total_matches_phases_at_least(v, phases) ==
    SumSeq([k \in 1..Len(phases) |-> phases[k].weeks]) > v

\* "phase_sum = sum(p.weeks for p in phases); if phase_sum != v: raise ValueError"
total_matches_phases(v, phases) ==
    SumSeq([k \in 1..Len(phases) |-> phases[k].weeks]) # v

\* PlanBlueprint(phases=..., total_weeks=...) and PlanBlueprint.model_validate: phases
\* has min_length 1 and every phase validates, total_weeks >= 1 and passes
\* total_matches_phases; has_phases and has_total tell which keys the input has
PlanBlueprint(has_phases, phases, has_total, total_weeks) ==
    LET validated == [k \in 1..Len(phases) |-> PhaseBlueprint(phases[k])]
        values == [k \in 1..Len(phases) |-> validated[k].value]
        raised == \/ ~has_phases
                  \/ Len(phases) < 1
                  \/ \E k \in 1..Len(phases) : validated[k].raised
                  \/ ~has_total
                  \/ total_weeks < 1
                  \/ total_matches_phases(total_weeks, values)
    IN  IF raised THEN [raised |-> TRUE, value |-> NoBlueprint]
        ELSE [raised |-> FALSE, value |-> [phases |-> values, total_weeks |-> total_weeks]]

\* _parse_blueprint(raw) for a dict raw (after the "properties" unwrapping and the
\* notes default, which touch neither phases nor total_weeks)
_parse_blueprint(has_phases, phases, has_total, total_weeks) ==
    IF has_phases
    THEN LET normalized == [k \in 1..Len(phases) |-> _normalize_phase(phases[k])]
             deduped == DedupeLoop(normalized, {}, <<>>)
             computed_sum == SumSeq([k \in 1..Len(deduped) |-> get_weeks(deduped[k])])
         IN  PlanBlueprint(TRUE, deduped, TRUE, computed_sum)
    ELSE PlanBlueprint(FALSE, phases, has_total, total_weeks)

-----------------------------------------------------------------------------
(* Calls of the pure functions: one call, then its return.                 *)

InitFn ==
    /\ FnIdle
    /\ ApiIdle
    /\ PlanIdle
    /\ LLMIdle

Call_calculate_phases ==
    /\ fn_call = NoCall
    /\ \E race_days \in (-PastDays)..MaxRaceDays :
          /\ fn_call' = [fn |-> "calculate_phases", race_days |-> race_days]
          /\ fn_ret' = [NoReturn EXCEPT !.phases = calculate_phases(race_days)]
    /\ UNCHANGED <<planVars, llmVars, apiVars>>

Call_assign_zone ==
    /\ fn_call = NoCall
    /\ \E i \in 0..MaxN, n \in 0..MaxN, rec \in BOOLEAN :
          /\ fn_call' = [fn |-> "_assign_zone", session_index |-> i,
                         total_sessions |-> n, is_recovery_week |-> rec]
          /\ fn_ret' = [NoReturn EXCEPT !.zone = _assign_zone(i, n, rec)]
    /\ UNCHANGED <<planVars, llmVars, apiVars>>

Call_distribute_sports ==
    /\ fn_call = NoCall
    /\ \E d \in 0..MaxDays, strongest \in Disciplines, weakest \in Disciplines :
          /\ strongest # weakest
          /\ fn_call' = [fn |-> "_distribute_sports", days_available |-> d,
                         strongest |-> strongest, weakest |-> weakest]
          /\ fn_ret' = [NoReturn EXCEPT !.sports = _distribute_sports(d, strongest, weakest)]
    /\ UNCHANGED <<planVars, llmVars, apiVars>>

\* the characters of the strings given to _parse_pace_to_seconds: digits, the colon,
\* the minus sign, the blank, and a letter
PaceAlphabet == {"5", "0", ":", "-", " ", "x"}

\* longer strings: "5:00:00", "12:30", "+5:00", "5:-30", " 5:00 ", "05:07", "5:75"
LongPaces ==
    { <<"5", ":", "0", "0", ":", "0", "0">>, <<"1", "2", ":", "3", "0">>,
      <<"+", "5", ":", "0", "0">>, <<"5", ":", "-", "3", "0">>,
      <<" ", "5", ":", "0", "0", " ">>, <<"0", "5", ":", "0", "7">>, <<"5", ":", "7", "5">> }

PaceStrings == SeqsUpTo(PaceAlphabet, MaxPaceLen) \cup LongPaces

Call_parse_pace_to_seconds ==
    /\ fn_call = NoCall
    /\ \E pace \in PaceStrings :
          /\ fn_call' = [fn |-> "_parse_pace_to_seconds", pace |-> pace]
          /\ fn_ret' = [NoReturn EXCEPT !.raised = _parse_pace_to_seconds(pace).raised,
                                        !.seconds = _parse_pace_to_seconds(pace).value]
    /\ UNCHANGED <<planVars, llmVars, apiVars>>

\* the css strings given to compute_zones_math besides the paces m:ss: "", " ", "5:00:00",
\* "-5:00", "5:xx", " 5:00 "
OddPaces ==
    { <<>>, <<" ">>, <<"5", ":", "0", "0", ":", "0", "0">>, <<"-", "5", ":", "0", "0">>,
      <<"5", ":", "x", "x">>, <<" ", "5", ":", "0", "0", " ">> }

\* the arguments of compute_zones_math: each of ftp, lthr and css over its range beside
\* ftp = 300, lthr = 160, css = "5:00", and every combination of absent, default and odd values
ZoneInputs ==
    {<<ftp, 160, default_css>> : ftp \in (-1)..MaxFtp}
        \cup {<<300, lthr, default_css>> : lthr \in (-1)..MaxLthr}
        \cup {<<300, 160, _seconds_to_pace(sec)>> : sec \in 0..MaxPaceSeconds}
        \cup ({0, 200, 300} \X {0, 155, 160} \X (OddPaces \cup {default_css}))

Call_compute_zones_math ==
    /\ fn_call = NoCall
    /\ \E in \in ZoneInputs :
          \E ret \in compute_zones_math(in[1], in[2], in[3]) :
              /\ fn_call' = [fn |-> "compute_zones_math", ftp |-> in[1], lthr |-> in[2],
                             css |-> in[3]]
              /\ fn_ret' = [NoReturn EXCEPT !.raised = ret.raised, !.zones = ret.zones]
    /\ UNCHANGED <<planVars, llmVars, apiVars>>

\* the phases of the agent's output: well-formed ones, two of them named Base, one
\* named through the alias "name", one of no weeks, one without weeks, one without name
RawPhases ==
    { RawPhase("phase_name", "Base", TRUE, 2), RawPhase("phase_name", "Base", TRUE, 1),
      RawPhase("name", "Taper", TRUE, 1), RawPhase("phase_name", "Peak", TRUE, 0),
      RawPhase("phase_name", "Build", FALSE, 0), RawPhase("", "", TRUE, 1) }

Call_PlanBlueprint ==
    /\ fn_call = NoCall
    /\ \E phases \in SeqsUpTo(RawPhases, MaxBlueprintPhases), total_weeks \in 0..MaxTotalWeeks :
          /\ fn_call' = [fn |-> "PlanBlueprint", has_phases |-> TRUE, phases |-> phases,
                         total_weeks |-> total_weeks]
          /\ fn_ret' = [NoReturn EXCEPT
                            !.raised = PlanBlueprint(TRUE, phases, TRUE, total_weeks).raised,
                            !.blueprint = PlanBlueprint(TRUE, phases, TRUE, total_weeks).value]
    /\ UNCHANGED <<planVars, llmVars, apiVars>>

Call_parse_blueprint ==
    /\ fn_call = NoCall
    /\ \E has_phases \in BOOLEAN, phases \in SeqsUpTo(RawPhases, MaxBlueprintPhases),
          total_weeks \in 0..MaxTotalWeeks :
          /\ has_phases \/ phases = <<>>
          /\ fn_call' = [fn |-> "_parse_blueprint", has_phases |-> has_phases,
                         phases |-> phases, total_weeks |-> total_weeks]
          /\ fn_ret' = [NoReturn EXCEPT
                            !.raised = _parse_blueprint(has_phases, phases, TRUE, total_weeks).raised,
                            !.blueprint = _parse_blueprint(has_phases, phases, TRUE, total_weeks).value]
    /\ UNCHANGED <<planVars, llmVars, apiVars>>

Return ==
    /\ fn_call # NoCall
    /\ fn_call' = NoCall
    /\ fn_ret' = NoReturn
    /\ UNCHANGED <<planVars, llmVars, apiVars>>

NextFn ==
    \/ Call_calculate_phases
    \/ Call_assign_zone
    \/ Call_distribute_sports
    \/ Call_parse_pace_to_seconds
    \/ Call_compute_zones_math
    \/ Call_PlanBlueprint
    \/ Call_parse_blueprint
    \/ Return

SpecFn == InitFn /\ [][NextFn]_vars

-----------------------------------------------------------------------------
(* routers/chat.py: chat_message, one step per call of the LLM.            *)

\* the keys of TOOLS
TOOLS == {"get_current_plan", "get_user_zones", "get_athlete_profile"}

\* What ollama_chat returns, by what _parse_tool_call makes of it:
\*   "prose"         text without a JSON object
\*   "json_tool"     the text is a JSON object with the key "tool"
\*   "embedded_tool" text around a JSON object with the key "tool"
\*   "json_other"    a JSON object without the key "tool"
\*   "json_list"     JSON that is no object and holds none
\*   "broken"        braces around what json.loads rejects
\* tool is the value under "tool": one of TOOLS, another string, or a value that
\* is no string (hashable, as null is, or not, as a list is not).
ChatTexts ==
    {[kind |-> k, tool |-> t, hashable |-> TRUE] :
         k \in {"json_tool", "embedded_tool"}, t \in TOOLS \cup {"delete_plan", "null"}}
      \cup {[kind |-> k, tool |-> "list", hashable |-> FALSE] : k \in {"json_tool", "embedded_tool"}}
      \cup {[kind |-> k, tool |-> "", hashable |-> TRUE] :
                k \in {"prose", "json_other", "json_list", "broken"}}

\* _parse_tool_call(text): the dict parsed from the whole text, or from text[start:end]
\* between the first "{" and the last "}", if it has the key "tool"; None otherwise
_parse_tool_call(text) ==
    IF text.kind = "json_tool" THEN [found |-> TRUE, tool |-> text.tool, hashable |-> text.hashable]
    ELSE IF text.kind = "embedded_tool"
         THEN [found |-> TRUE, tool |-> text.tool, hashable |-> text.hashable]
    ELSE [found |-> FALSE, tool |-> "", hashable |-> TRUE]

\* a fourth round of tools
range_3_and_one_more(i) == i < 4

\* "for _ in range(3)"
range_3(i) == i < 3

\* "response_text = await ollama_chat(messages, system=system)", line 32: the first call
\* of the LLM. ollama_chat raises on a timeout or an HTTP error.
chat_message_enter ==
    /\ chat_pc = "call"
    /\ \/ \E text \in ChatTexts :
             /\ response_text' = text
             /\ llm_history' = Append(llm_history, text)
             /\ chat_pc' = "loop"
       \/ /\ chat_pc' = "raised"
          /\ UNCHANGED <<response_text, llm_history>>
    /\ UNCHANGED <<tools_used, rounds, executed, fnVars, planVars, llmVars, genVars, archVars>>

\* one iteration of the loop that runs a tool: lines 36-56. The tool is called with
\* the user id and may raise; then the LLM is called again.
chat_message_round ==
    /\ chat_pc = "loop"
    /\ range_3(rounds)
    /\ LET tool_call == _parse_tool_call(response_text)
       IN  /\ tool_call.found
           /\ tool_call.hashable
           /\ tool_call.tool \in TOOLS
           /\ tools_used' = Append(tools_used, tool_call.tool)
           /\ executed' = Append(executed, tool_call.tool)
           /\ \/ \E text \in ChatTexts :
                    /\ response_text' = text
                    /\ llm_history' = Append(llm_history, text)
                    /\ rounds' = rounds + 1
                    /\ chat_pc' = "loop"
              \/ /\ chat_pc' = "raised"
                 /\ UNCHANGED <<response_text, llm_history, rounds>>
    /\ UNCHANGED <<fnVars, planVars, llmVars, genVars, archVars>>

\* "tool_name not in TOOLS" with a tool_name that cannot be hashed: TypeError
chat_message_raises ==
    /\ chat_pc = "loop"
    /\ range_3(rounds)
    /\ _parse_tool_call(response_text).found
    /\ ~_parse_tool_call(response_text).hashable
    /\ chat_pc' = "raised"
    /\ UNCHANGED <<response_text, tools_used, rounds, llm_history, executed,
                   fnVars, planVars, llmVars, genVars, archVars>>

\* the two "break"s, or the end of range(3); then "return ChatResponse(...)"
chat_message_return ==
    /\ chat_pc = "loop"
    /\ \/ ~range_3(rounds)
       \/ ~_parse_tool_call(response_text).found
       \/ /\ _parse_tool_call(response_text).hashable
          /\ _parse_tool_call(response_text).tool \notin TOOLS
    /\ chat_pc' = "done"
    /\ UNCHANGED <<response_text, tools_used, rounds, llm_history, executed,
                   fnVars, planVars, llmVars, genVars, archVars>>

InitChat ==
    /\ chat_pc = "call"
    /\ response_text = NoResponse
    /\ tools_used = <<>>
    /\ rounds = 0
    /\ llm_history = <<>>
    /\ executed = <<>>
    /\ FnIdle
    /\ GenIdle
    /\ ArchIdle
    /\ PlanIdle
    /\ LLMIdle

NextChat ==
    \/ chat_message_enter
    \/ chat_message_round
    \/ chat_message_raises
    \/ chat_message_return

\* every await of the handler ends: the LLM answers, or httpx times out after 180 s
SpecChat == InitChat /\ [][NextChat]_vars /\ WF_vars(NextChat)

-----------------------------------------------------------------------------
(* routers/plans.py                                                        *)

\* the user ids of the requests: two athletes with a profile, one without
Users == {"u1", "u2", "u3"}

\* supabase.table("athlete_profiles").select("*").eq("user_id", user_id).single().execute():
\* u1 races in 13 days (W = 1), u2 in 30 days (W = 4), u3 has not completed onboarding
athlete_profiles(user_id) ==
    CASE user_id = "u1" ->
           [found |-> TRUE,
            data |-> [race_days |-> 13, days_available |-> 2, weekly_hours |-> 3 * HoursDen,
                      strongest_discipline |-> "bike", weakest_discipline |-> "swim",
                      iso_format |-> TRUE]]
      [] user_id = "u2" ->
           [found |-> TRUE,
            data |-> [race_days |-> 30, days_available |-> 3, weekly_hours |-> 5 * HoursDen,
                      strongest_discipline |-> "run", weakest_discipline |-> "bike",
                      iso_format |-> TRUE]]
      [] OTHER -> [found |-> FALSE, data |-> NoProfile]

\* ArchitectRequest.overrides: a dict that holds any of the profile's keys race_date,
\* weekly_hours and days_available (race_date as the days from today to it)
Overrides ==
    { [keys |-> k,
       race_days |-> IF "race_date" \in k THEN 60 ELSE 0,
       weekly_hours |-> IF "weekly_hours" \in k THEN 12 * HoursDen ELSE 0,
       days_available |-> IF "days_available" \in k THEN 6 ELSE 0] :
          k \in SUBSET {"race_date", "weekly_hours", "days_available"} }

\* what the agent's last message holds: up to two phases and a total_weeks
AgentOutputs ==
    { [has_phases |-> h, phases |-> ph, total_weeks |-> t] :
          h \in BOOLEAN, ph \in SeqsUpTo(RawPhases, 2), t \in {0, 3} }

\* lines 118-133: the profile is fetched; without one the answer is 404, otherwise
\* run_plan_architect is awaited with profile_result.data
architect_plan_enter ==
    /\ arch.pc = "call"
    /\ LET profile_result == athlete_profiles(arch.user_id)
       IN  IF ~profile_result.found
           THEN arch' = [arch EXCEPT !.pc = "done", !.status = 404]
           ELSE arch' = [arch EXCEPT !.pc = "agent", !.agent_profile = profile_result.data]
    /\ UNCHANGED <<fnVars, planVars, llmVars, chatVars, genVars>>

\* lines 132-137: the agent's output goes through _parse_blueprint; a ValueError
\* (no message, or output that does not parse) is answered with 500
architect_plan_return ==
    /\ arch.pc = "agent"
    /\ \/ \E out \in AgentOutputs :
             LET parsed == _parse_blueprint(out.has_phases, out.phases, TRUE, out.total_weeks)
             IN  IF parsed.raised
                 THEN arch' = [arch EXCEPT !.pc = "done", !.status = 500]
                 ELSE arch' = [arch EXCEPT !.pc = "done", !.status = 200,
                                           !.blueprint = parsed.value]
       \/ arch' = [arch EXCEPT !.pc = "done", !.status = 500]
    /\ UNCHANGED <<fnVars, planVars, llmVars, chatVars, genVars>>

InitArchitect ==
    /\ arch \in { [NoArchitect EXCEPT !.pc = "call", !.user_id = u, !.overrides = o] :
                      u \in Users, o \in Overrides }
    /\ FnIdle
    /\ PlanIdle
    /\ LLMIdle
    /\ ChatIdle
    /\ GenIdle

NextArchitect ==
    \/ architect_plan_enter
    \/ architect_plan_return

SpecArchitect == InitArchitect /\ [][NextArchitect]_vars

\* GET /plans/current: the row of user_id with the latest generated_at, or 404
get_current_plan(table, user_id) ==
    LET data == {row \in table : row.user_id = user_id}
    IN  IF data = {} THEN [status |-> 404, saved |-> NoRow]
        ELSE [status |-> 200,
              saved |-> CHOOSE row \in data :
                            \A other \in data : other.generated_at <= row.generated_at]

\* What the request object of generate gives for request.max_weeks. GeneratePlanRequest
\* declares user_id only, so the object FastAPI builds from the body has no such
\* attribute (has_max_weeks = FALSE) and line 34 raises AttributeError; the lines
\* below it run for a request object that carries one.
GenerateRequests ==
    { [user_id |-> u, has_max_weeks |-> m > 0, max_weeks |-> m] : u \in Users, m \in 0..2 }

\* "first_phase = dict(phases[0]); first_phase['end_week'] = min(first_phase['end_week'],
\* first_phase['start_week'] + request.max_weeks - 1)"
first_phase_of(phases, max_weeks) ==
    [phases[1] EXCEPT !.end_week = Min(@, phases[1].start_week + max_weeks - 1)]

\* What the LLM answers for one week of the first phase: an exception, JSON without
\* "sessions", one well-formed session, or one session of an unknown sport.
PlanResponse(wk, kind) ==
    CASE kind = "raises" -> [kind |-> "raises", sessions |-> <<>>]
      [] kind = "no_sessions" -> [kind |-> "no_sessions", sessions |-> <<>>]
      [] kind = "one" -> [kind |-> "sessions",
                          sessions |-> <<LLMSession("swim", "Monday", wk, 2, 60, {})>>]
      [] kind = "invalid" -> [kind |-> "sessions",
                              sessions |-> <<LLMSession("yoga", "Monday", wk, 2, 60, {})>>]

PlanResponseKinds == {"raises", "no_sessions", "one", "invalid"}

\* generate_phase_sessions(profile, phase, all_phases) as a function of the LLM's answers:
\* the loop of generate_phase_sessions_week from phase.start_week to phase.end_week
RECURSIVE generate_phase_sessions(_, _, _, _, _)
generate_phase_sessions(days, ph, wk, kinds, kept) ==
    IF wk > ph.end_week THEN kept
    ELSE LET response == PlanResponse(wk, kinds[wk])
             training_days == Take(DAYS_OF_WEEK, days)
             week_phase == [start_week |-> wk, end_week |-> wk, name |-> ph.name,
                            weeks |-> 1, focus |-> ph.focus]
             week_sessions == _validate_sessions(response.sessions, week_phase)
             assigned == AssignLoop(week_sessions, training_days, wk,
                                    [d \in {training_days[k] : k \in 1..Len(training_days)} |-> 0],
                                    <<>>)
         IN  generate_phase_sessions(days, ph, wk + 1, kinds,
                 IF response.kind = "sessions" THEN kept \o assigned ELSE kept)

\* "phase_data.append({**p, 'preview': previews.get(p['name'], None)})": previews holds
\* the phases after the first when the LLM gave them, and is {} when it failed
phase_data(phases, first_name, previews) ==
    [k \in 1..Len(phases) |->
        [name |-> phases[k].name, weeks |-> phases[k].weeks,
         start_week |-> phases[k].start_week, end_week |-> phases[k].end_week,
         focus |-> phases[k].focus,
         preview |-> IF previews /\ phases[k].name # first_name THEN "summary" ELSE "None"]]

\* lines 14-34: the profile is fetched (404 without one), the phases are calculated and
\* the first phase is capped at request.max_weeks
generate_enter(r) ==
    /\ gen[r].pc = "idle"
    /\ calls < MaxCalls
    /\ calls' = calls + 1
    /\ \E request \in GenerateRequests :
          LET profile_result == athlete_profiles(request.user_id)
              received == [NoRequest EXCEPT
                              !.user_id = request.user_id,
                              !.has_max_weeks = request.has_max_weeks,
                              !.max_weeks = request.max_weeks,
                              !.before = get_current_plan(plans_table, request.user_id).saved]
          IN  IF ~profile_result.found
              THEN gen' = [gen EXCEPT ![r] = [received EXCEPT !.pc = "done", !.status = 404,
                                                 !.detail = "Profile not found. Complete onboarding first."]]
              ELSE IF ~request.has_max_weeks
              THEN gen' = [gen EXCEPT ![r] = [received EXCEPT !.pc = "done", !.status = 500,
                                                 !.detail = "AttributeError"]]
              ELSE gen' = [gen EXCEPT ![r] = [received EXCEPT !.pc = "llm"]]
    /\ UNCHANGED <<plans_table, serial, fnVars, planVars, llmVars, chatVars, archVars>>

\* line 35: "all_sessions = await generate_phase_sessions(profile, first_phase, phases)"
generate_sessions(r) ==
    /\ gen[r].pc = "llm"
    /\ LET data == athlete_profiles(gen[r].user_id).data
           first_phase == first_phase_of(calculate_phases(data.race_days), gen[r].max_weeks)
           first_weeks == first_phase.start_week..first_phase.end_week
       IN  \E kinds \in [first_weeks -> PlanResponseKinds] :
              LET kept == generate_phase_sessions(data.days_available, first_phase,
                                                  first_phase.start_week, kinds, <<>>)
              IN  gen' = [gen EXCEPT ![r].all_sessions = kept,
                                     ![r].llm_unusable = \E wk \in first_weeks : kinds[wk] # "one",
                                     ![r].pc = IF kept = <<>> THEN "fallback" ELSE "previews"]
    /\ UNCHANGED <<plans_table, serial, calls, fnVars, planVars, llmVars, chatVars, archVars>>

\* lines 38-40: "if not all_sessions: fallback = generate_plan_fallback(profile)"; the
\* steps of generate_plan follow
generate_fallback_call(r) ==
    /\ gen[r].pc = "fallback"
    /\ pc = "idle"
    /\ profile' = athlete_profiles(gen[r].user_id).data
    /\ fp_round' = IF profile' = profile THEN fp_round ELSE [b \in BOOLEAN |-> Unrounded]
    /\ pc' = "call"
    /\ gen' = [gen EXCEPT ![r].pc = "in_fallback"]
    /\ UNCHANGED <<weeks, week_num, sessions, plan, first_plan, plans_table, serial, calls,
                   fnVars, llmVars, chatVars, archVars>>

\* line 41: "all_sessions = fallback['sessions']"
generate_fallback_return(r) ==
    /\ gen[r].pc = "in_fallback"
    /\ pc = "done"
    /\ gen' = [gen EXCEPT ![r].all_sessions = plan.sessions, ![r].fallback = TRUE,
                           ![r].pc = "previews"]
    /\ pc' = "idle"
    /\ weeks' = 0
    /\ week_num' = 0
    /\ sessions' = <<>>
    /\ plan' = NoPlan
    /\ UNCHANGED <<profile, fp_round, first_plan, plans_table, serial, calls,
                   fnVars, llmVars, chatVars, archVars>>

\* line 44: "previews = await generate_phase_previews(...)", which returns {} when the
\* LLM fails
generate_previews(r) ==
    /\ gen[r].pc = "previews"
    /\ \E previews \in BOOLEAN : gen' = [gen EXCEPT ![r].previews = previews, ![r].pc = "delete"]
    /\ UNCHANGED <<plans_table, serial, calls, fnVars, planVars, llmVars, chatVars, archVars>>

\* line 65: supabase.table("plans").delete().eq("user_id", request.user_id).execute()
generate_delete(r) ==
    /\ gen[r].pc = "delete"
    /\ plans_table' = {row \in plans_table : row.user_id # gen[r].user_id}
    /\ gen' = [gen EXCEPT ![r].pc = "insert"]
    /\ UNCHANGED <<serial, calls, fnVars, planVars, llmVars, chatVars, archVars>>

\* lines 46-63 and 66-79: the row is built and inserted; the table gives it its id and
\* generated_at. An insert that returns no data stores nothing and is answered with 500.
generate_insert(r) ==
    /\ gen[r].pc = "insert"
    /\ LET data == athlete_profiles(gen[r].user_id).data
           phases == calculate_phases(data.race_days)
           row == [id |-> serial + 1,
                   user_id |-> gen[r].user_id,
                   generated_at |-> serial + 1,
                   weeks_until_race |-> phases[Len(phases)].end_week,
                   phases |-> phase_data(phases, phases[1].name, gen[r].previews),
                   sessions |-> gen[r].all_sessions]
       IN  \/ /\ plans_table' = plans_table \cup {row}
              /\ serial' = serial + 1
              /\ gen' = [gen EXCEPT ![r].pc = "done", ![r].status = 200, ![r].saved = row]
           \/ /\ gen' = [gen EXCEPT ![r].pc = "done", ![r].status = 500,
                                     ![r].detail = "Failed to save plan"]
              /\ UNCHANGED <<plans_table, serial>>
    /\ UNCHANGED <<calls, fnVars, planVars, llmVars, chatVars, archVars>>

\* the response is sent: the handler's locals are gone
generate_exit(r) ==
    /\ gen[r].pc = "done"
    /\ gen' = [gen EXCEPT ![r] = NoRequest]
    /\ UNCHANGED <<plans_table, serial, calls, fnVars, planVars, llmVars, chatVars, archVars>>

InitGenerate ==
    /\ GenIdle
    /\ FnIdle
    /\ PlanIdle
    /\ LLMIdle
    /\ ChatIdle
    /\ ArchIdle

NextGenerate ==
    \/ \E r \in Requests : generate_enter(r)
    \/ \E r \in Requests : generate_sessions(r)
    \/ \E r \in Requests : generate_fallback_call(r)
    \/ generate_plan_enter
    \/ generate_plan_week
    \/ generate_plan_return
    \/ \E r \in Requests : generate_fallback_return(r)
    \/ \E r \in Requests : generate_previews(r)
    \/ \E r \in Requests : generate_delete(r)
    \/ \E r \in Requests : generate_insert(r)
    \/ \E r \in Requests : generate_exit(r)

SpecGenerate == InitGenerate /\ [][NextGenerate]_vars

-----------------------------------------------------------------------------
(* The properties.                                                          *)

\* W = max(1, floor(days between today and race date / 7))
WeeksTo(race_days) == IF race_days >= 14 THEN race_days \div 7 ELSE 1

\* the integer nearest to num / den (num, den > 0)
Nearest(num, den) == CHOOSE n \in 0..num : 2 * (den * n - num) <= den /\ 2 * (num - den * n) <= den

WeeksOf(phases) == [k \in 1..Len(phases) |-> phases[k].weeks]
NamesOf(phases) == [k \in 1..Len(phases) |-> phases[k].name]

CalledPhases == fn_call.fn = "calculate_phases"

\* C1: for every W >= 1 the weeks of the phases calculate_phases returns sum to W.
C1_PhaseWeeksSumToW ==
    CalledPhases => SumSeq(WeeksOf(fn_ret.phases)) = WeeksTo(fn_call.race_days)

\* C2: for every W >= 1 the phases partition weeks 1..W: the first starts at week 1,
\* each has weeks >= 1 and end_week = start_week + weeks - 1, each next one starts
\* at the previous end_week + 1, and the last ends at W.
C2_PhasesPartitionWeeks ==
    CalledPhases =>
        /\ fn_ret.phases[1].start_week = 1
        /\ \A k \in 1..Len(fn_ret.phases) :
              /\ fn_ret.phases[k].weeks >= 1
              /\ fn_ret.phases[k].end_week = fn_ret.phases[k].start_week + fn_ret.phases[k].weeks - 1
              /\ k < Len(fn_ret.phases) => fn_ret.phases[k + 1].start_week = fn_ret.phases[k].end_week + 1
        /\ fn_ret.phases[Len(fn_ret.phases)].end_week = WeeksTo(fn_call.race_days)

WeekdayOrdinal(day) ==
    CASE day = "Monday" -> 1
      [] day = "Tuesday" -> 2
      [] day = "Wednesday" -> 3
      [] day = "Thursday" -> 4
      [] day = "Friday" -> 5
      [] day = "Saturday" -> 6
      [] day = "Sunday" -> 7

\* C4: every session of generate_plan has 20 <= duration_minutes <= 180, a multiple of 5.
C4_DurationsClamped ==
    \A k \in 1..Len(sessions) :
        /\ sessions[k].duration_minutes \in 20..180
        /\ sessions[k].duration_minutes % 5 = 0

\* a finished plan whose weekly budget is under 15 minutes per session: the raw
\* durations are out of range and the sessions of its recovery week are clamped to 20
C4_ClampedRecoveryWeek ==
    /\ pc = "done"
    /\ weeks >= 4
    /\ profile.weekly_hours * 60 < 15 * HoursDen * profile.days_available
    /\ \E k \in 1..Len(plan.sessions) :
          plan.sessions[k].week = 4 /\ plan.sessions[k].duration_minutes = 20

\* C5: a week is a recovery week exactly when its number is divisible by 4; the session
\* at 0-based position i of a recovery week has zone 1 when i mod 3 = 0 and zone 2
\* otherwise; the sessions of the other weeks have the zones of a normal week.
C5_RecoveryCadence ==
    \A k \in 1..Len(sessions) :
        LET s == sessions[k]
            i == WeekdayOrdinal(s.day) - 1
            n == profile.days_available
        IN  /\ s.week % 4 = 0 => s.zone = (IF i % 3 = 0 THEN 1 ELSE 2)
            /\ s.week % 4 # 0 =>
                  s.zone = (IF 10 * i < 7 * n THEN 2 ELSE IF 10 * i < 9 * n THEN 3 ELSE 4)

C5_TwoRecoveryWeeks ==
    /\ pc = "done"
    /\ weeks >= 8
    /\ \E j, k \in 1..Len(plan.sessions) :
          /\ plan.sessions[j].week = 8 /\ plan.sessions[j].zone = 1
          /\ plan.sessions[j].day = "Thursday"
          /\ plan.sessions[k].week = 7 /\ plan.sessions[k].zone = 3

\* C6: in a non-recovery week of N sessions _assign_zone gives position i zone 2 when
\* i/N < 0.70, zone 3 when 0.70 <= i/N < 0.90 and zone 4 when i/N >= 0.90; it never
\* returns zone 5.
C6_PolarizedZones ==
    fn_call.fn = "_assign_zone" =>
        LET i == fn_call.session_index
            n == fn_call.total_sessions
        IN  /\ fn_ret.zone # 5
            /\ (~fn_call.is_recovery_week /\ n >= 1) =>
                  /\ 10 * i < 7 * n => fn_ret.zone = 2
                  /\ (7 * n <= 10 * i /\ 10 * i < 9 * n) => fn_ret.zone = 3
                  /\ 10 * i >= 9 * n => fn_ret.zone = 4

C6_EachZoneOfANormalWeek ==
    /\ fn_call.fn = "_assign_zone"
    /\ ~fn_call.is_recovery_week
    /\ fn_call.total_sessions = 10
    /\ fn_call.session_index = 7
    /\ fn_ret.zone = 3

\* the sessions of week wk and the sum of their durations
WeekOf(ss, wk) == SelectSeq(ss, LAMBDA s : s.week = wk)
WeekTotal(ss, wk) == SumSeq([k \in 1..Len(WeekOf(ss, wk)) |-> WeekOf(ss, wk)[k].duration_minutes])

\* the weeks generate_plan has completed
WeeksBuilt == 1..(week_num - 1)

\* the budget of week wk in minutes, times HoursDen: weekly_hours x 60, and 60% of it
\* in a recovery week
BudgetScaled(wk) == IF wk % 4 = 0 THEN profile.weekly_hours * 36 ELSE profile.weekly_hours * 60

Unclamped(ss, wk) ==
    \A k \in 1..Len(WeekOf(ss, wk)) : WeekOf(ss, wk)[k].duration_minutes \in 25..175

WeekdayName(k) ==
    CASE k = 1 -> "Monday"
      [] k = 2 -> "Tuesday"
      [] k = 3 -> "Wednesday"
      [] k = 4 -> "Thursday"
      [] k = 5 -> "Friday"
      [] k = 6 -> "Saturday"
      [] k = 7 -> "Sunday"

\* C9: for days_available d in 1..7 and distinct strongest/weakest the plan has, for
\* every week 1..W in ascending order, exactly d sessions: the k-th is on the k-th
\* weekday from Monday and carries the k-th sport of _distribute_sports, which has d
\* entries, each swim, bike or run; and weeks_until_race = W.
C9_WeeksOfDSessions ==
    pc = "done" =>
        LET d == profile.days_available
            W == WeeksTo(profile.race_days)
            sport_order == _distribute_sports(d, profile.strongest_discipline,
                                              profile.weakest_discipline)
        IN  /\ plan.weeks_until_race = W
            /\ Len(sport_order) = d
            /\ Len(plan.sessions) = W * d
            /\ \A wk \in 1..W, k \in 1..d :
                  LET s == plan.sessions[(wk - 1) * d + k]
                  IN  /\ s.week = wk
                      /\ s.day = WeekdayName(k)
                      /\ s.sport = sport_order[k]
                      /\ s.sport \in {"swim", "bike", "run"}

C9_SevenDayPlan ==
    /\ pc = "done"
    /\ profile.days_available = 7
    /\ plan.weeks_until_race = 4
    /\ Len(plan.sessions) = 28
    /\ plan.sessions[28].day = "Sunday"

IdsDistinct(ss) == \A i, j \in 1..Len(ss) : i # j => ss[i].id # ss[j].id

\* C10: the session ids of one plan are pairwise distinct: a session of generate_plan
\* has the id w{week}_d{day ordinal}_{sport}, and no two sessions kept by
\* generate_phase_sessions share an id, whatever the LLM returned.
C10_SessionIdsDistinct ==
    /\ IdsDistinct(sessions)
    /\ \A k \in 1..Len(sessions) :
          sessions[k].id = "w" \o ToString(sessions[k].week) \o "_d"
                           \o ToString(WeekdayOrdinal(sessions[k].day)) \o "_" \o sessions[k].sport
    /\ IdsDistinct(all_sessions)

\* the LLM path kept two sessions of the same sport on one day of one week
C10_TwoOfASportOnOneDay ==
    /\ llm_pc = "done"
    /\ \E i, j \in 1..Len(all_sessions) :
          /\ i < j
          /\ all_sessions[i].week = all_sessions[j].week
          /\ all_sessions[i].day = all_sessions[j].day
          /\ all_sessions[i].sport = all_sessions[j].sport

\* the phases of calculate_phases whose span [start_week, end_week] holds week wk
PhasesOfWeek(phases, wk) ==
    {k \in 1..Len(phases) : phases[k].start_week <= wk /\ wk <= phases[k].end_week}

\* C11: for the same race date and the same today, the week of every session of
\* generate_plan lies in the span of exactly one phase of calculate_phases, for every W >= 1.
C11_WeekInOnePhase ==
    \A k \in 1..Len(sessions) :
        Cardinality(PhasesOfWeek(calculate_phases(profile.race_days), sessions[k].week)) = 1

\* C12: for days_available in 1..7 and distinct strongest and weakest, the sequence
\* _distribute_sports returns never has one sport in two consecutive positions.
C12_NoSportBackToBack ==
    (/\ fn_call.fn = "_distribute_sports"
     /\ fn_call.days_available \in 1..7
     /\ fn_call.strongest # fn_call.weakest)
        => \A k \in 1..(Len(fn_ret.sports) - 1) : fn_ret.sports[k] # fn_ret.sports[k + 1]

\* seven days, of which the weakest discipline has three
C12_SevenDaysInterleaved ==
    /\ fn_call.fn = "_distribute_sports"
    /\ fn_call.days_available = 7
    /\ fn_call.strongest # fn_call.weakest
    /\ Len(fn_ret.sports) = 7
    /\ CountOf(fn_ret.sports, fn_call.weakest) = 3

\* C13: for days_available d in 1..7 the strongest discipline appears exactly
\* max(1, floor(d/3 x 0.8)) times in the sequence of _distribute_sports and the middle
\* one exactly max(1, d - weakest_count - strongest_count) times: only the count of
\* the weakest is truncated or padded to reach d.
C13_OnlyWeakestReconciled ==
    (/\ fn_call.fn = "_distribute_sports"
     /\ fn_call.days_available \in 1..7
     /\ fn_call.strongest # fn_call.weakest)
        => LET d == fn_call.days_available
               middle == CHOOSE s \in Disciplines : s # fn_call.strongest /\ s # fn_call.weakest
               weakest_count == Ceil(12 * d, 30)
               strongest_count == Max(1, Floor(8 * d, 30))
           IN  /\ CountOf(fn_ret.sports, fn_call.strongest) = strongest_count
               /\ CountOf(fn_ret.sports, middle) = Max(1, d - weakest_count - strongest_count)

\* C14: generate_plan is deterministic: a second call with the same profile on the
\* same day returns the same weeks_until_race and the same session list.
C14_SecondCallSamePlan ==
    (pc = "done" /\ first_plan # NoPlan) => plan = first_plan

\* both calls returned, eight weeks of seven sessions each
C14_TwoCallsReturned ==
    /\ pc = "done"
    /\ first_plan # NoPlan
    /\ Len(first_plan.sessions) = 7 * MaxPlanWeeks
    /\ Len(plan.sessions) = 7 * MaxPlanWeeks

\* the profiles the input validation is to reject
InvalidProfile(p) ==
    \/ p.weekly_hours <= 0
    \/ p.days_available \notin 1..7
    \/ p.strongest_discipline = p.weakest_discipline

\* C15: generate_plan fails fast and returns no plan for a profile with non-positive
\* weekly_hours, days_available outside 1..7 or strongest_discipline equal to
\* weakest_discipline: it builds no session for it and does not return.
C15_InvalidProfileFailsFast ==
    InvalidProfile(profile) => (pc # "done" /\ sessions = <<>>)

\* a generate_plan session: the eight keys of the dict it appends
IsSession(s) ==
    /\ DOMAIN s = {"id", "week", "day", "sport", "duration_minutes", "zone", "zone_label",
                   "description"}
    /\ s.week \in Nat
    /\ s.duration_minutes \in Nat
    /\ s.zone \in 1..5

\* no usable training day, or a race date that is today or in the past
DegenerateProfile(p) ==
    /\ p.iso_format
    /\ (p.days_available = 0 \/ p.race_days <= 0)

\* C16: with days_available = 0, or a race date that is today or in the past,
\* generate_plan does not raise and returns a structurally valid plan: an integer
\* weeks_until_race (no negative number of weeks) and a list of sessions, which is
\* empty when there is no usable training day.
C16_DegenerateProfileGetsPlan ==
    DegenerateProfile(profile) =>
        /\ pc # "raised"
        /\ pc = "done" =>
              /\ plan.weeks_until_race \in Nat
              /\ \A k \in 1..Len(plan.sessions) : IsSession(plan.sessions[k])
              /\ profile.days_available = 0 => plan.sessions = <<>>

\* a plan of no session for no training day and a race date in the past
C16_EmptyPlanForPastRace ==
    /\ pc = "done"
    /\ profile.days_available = 0
    /\ profile.race_days < 0
    /\ plan = [weeks_until_race |-> 1, sessions |-> <<>>]

CalledZones == fn_call.fn = "compute_zones_math"

\* the seconds of a pace string of a zone table
Sec(pace) == _parse_pace_to_seconds(pace).value

\* a minute:second pair: exactly two parts around one colon, each an integer
\* that is not negative
IsPacePair(pace) ==
    LET parts == split(strip(pace))
    IN  /\ Len(parts) = 2
        /\ \A k \in 1..2 : ~int(parts[k]).raised /\ int(parts[k]).value >= 0

\* C17: for all valid (ftp, lthr, css) the zones Z1..Z5 of each table of
\* compute_zones_math are ordered and do not overlap: for k = 1..4 the max of Zk is
\* below the min of Zk+1 for power and heart rate, and for pace the fast limit of Zk
\* is not faster than the slow limit of Zk+1. (Valid is taken narrowly: thresholds
\* of at least 100 W and 100 bpm, below which neighbouring bounds round to one integer.)
C17_ZonesOrderedDisjoint ==
    (/\ CalledZones
     /\ fn_call.ftp >= 100
     /\ fn_call.lthr >= 100
     /\ IsPacePair(fn_call.css))
        => /\ ~fn_ret.raised
           /\ \A k \in 1..4 :
                 /\ fn_ret.zones.power_zones[k].max < fn_ret.zones.power_zones[k + 1].min
                 /\ fn_ret.zones.hr_zones[k].max < fn_ret.zones.hr_zones[k + 1].min
                 /\ Sec(fn_ret.zones.pace_zones[k].max_pace)
                        >= Sec(fn_ret.zones.pace_zones[k + 1].min_pace)

\* b is an integer nearest to x * pct / 100
IsNearest(b, x, pct) == (100 * b - x * pct) \in (-50)..50

\* the percentages of C18: <<min, max>> of Z1..Z5, heart rate of lthr and power of ftp
ClaimedHRPercent == <<<<0, 84>>, <<85, 89>>, <<90, 94>>, <<95, 99>>, <<100, 0>>>>
ClaimedPowerPercent == <<<<0, 55>>, <<56, 75>>, <<76, 90>>, <<91, 105>>, <<106, 0>>>>

\* C18: for lthr > 0 and ftp > 0 every heart-rate bound is lthr times its percentage
\* (Z1 max 84, Z2 85-89, Z3 90-94, Z4 95-99, Z5 min 100) rounded to the nearest
\* integer and every power bound ftp times its percentage (Z1 max 55, Z2 56-75,
\* Z3 76-90, Z4 91-105, Z5 min 106) rounded likewise; ftp = 300, lthr = 160 gives
\* power Z4 = [273, 315] and heart-rate Z4 = [152, 158].
C18_BoundsArePercentRounded ==
    (CalledZones /\ fn_call.ftp > 0 /\ fn_call.lthr > 0 /\ ~fn_ret.raised) =>
        LET hr == fn_ret.zones.hr_zones
            power == fn_ret.zones.power_zones
        IN  /\ \A k \in 2..5 :
                  /\ IsNearest(hr[k].min, fn_call.lthr, ClaimedHRPercent[k][1])
                  /\ IsNearest(power[k].min, fn_call.ftp, ClaimedPowerPercent[k][1])
            /\ \A k \in 1..4 :
                  /\ IsNearest(hr[k].max, fn_call.lthr, ClaimedHRPercent[k][2])
                  /\ IsNearest(power[k].max, fn_call.ftp, ClaimedPowerPercent[k][2])
            /\ hr[1].min = None /\ hr[5].max = None
            /\ power[1].min = None /\ power[5].max = None
            /\ fn_call.ftp = 300 => (power[4].min = 273 /\ power[4].max = 315)
            /\ fn_call.lthr = 160 => (hr[4].min = 152 /\ hr[4].max = 158)

\* the scenario of C18: compute_zones_math(ftp=300, lthr=160, css="5:00") returned
C18_Scenario300_160 ==
    /\ CalledZones
    /\ fn_call.ftp = 300
    /\ fn_call.lthr = 160
    /\ fn_call.css = <<"5", ":", "0", "0">>
    /\ fn_ret.zones.power_zones[4] = [label |-> "Threshold", min |-> 273, max |-> 315]
    /\ fn_ret.zones.hr_zones[4] = [label |-> "Threshold", min |-> 152, max |-> 158]

\* the tables compute_zones_math can return for (ftp, lthr, css)
ZonesOf(ftp, lthr, css) == {ret.zones : ret \in compute_zones_math(ftp, lthr, css)}

\* C19: ftp = 0 yields the power zones of ftp = 200, lthr = 0 the heart-rate zones of
\* lthr = 155 and an empty pace string the pace zones of "5:00"; 'inputs' echoes the
\* substituted values 200, 155, "5:00", and the caller's values unchanged when given.
C19_DefaultsSubstituted ==
    (CalledZones /\ ~fn_ret.raised) =>
        LET five == <<"5", ":", "0", "0">>
            in == fn_ret.zones.inputs
        IN  /\ fn_call.ftp = 0 =>
                  /\ fn_ret.zones.power_zones
                        \in {z.power_zones : z \in ZonesOf(200, fn_call.lthr, fn_call.css)}
                  /\ in.ftp = 200
            /\ fn_call.lthr = 0 =>
                  /\ fn_ret.zones.hr_zones
                        \in {z.hr_zones : z \in ZonesOf(fn_call.ftp, 155, fn_call.css)}
                  /\ in.lthr = 155
            /\ fn_call.css = <<>> =>
                  /\ fn_ret.zones.pace_zones
                        \in {z.pace_zones : z \in ZonesOf(fn_call.ftp, fn_call.lthr, five)}
                  /\ in.css = five
            /\ fn_call.ftp > 0 => in.ftp = fn_call.ftp
            /\ fn_call.lthr > 0 => in.lthr = fn_call.lthr
            /\ strip(fn_call.css) # <<>> => in.css = fn_call.css

\* a call with nothing given: the zones of 200 W, 155 bpm and 5:00 per km
C19_AllDefaults ==
    /\ CalledZones
    /\ fn_call.ftp = 0 /\ fn_call.lthr = 0 /\ fn_call.css = <<>>
    /\ fn_ret.zones.inputs = [ftp |-> 200, lthr |-> 155, css |-> <<"5", ":", "0", "0">>]
    /\ fn_ret.zones.power_zones[2].min = 112
    /\ fn_ret.zones.hr_zones[1].max = 130
    /\ fn_ret.zones.pace_zones[5].min_pace = <<"4", ":", "4", "5">>

\* C20: _parse_pace_to_seconds, and compute_zones_math through it, fails with an
\* input-format error for every non-empty pace string that is not exactly one
\* colon-separated minute:second pair of non-negative integers, and returns
\* minutes * 60 + seconds otherwise.
C20_PaceParsedOrRejected ==
    /\ (fn_call.fn = "_parse_pace_to_seconds" /\ fn_call.pace # <<>>) =>
          IF IsPacePair(fn_call.pace)
          THEN LET parts == split(strip(fn_call.pace))
               IN  /\ ~fn_ret.raised
                   /\ fn_ret.seconds = int(parts[1]).value * 60 + int(parts[2]).value
          ELSE fn_ret.raised
    /\ (CalledZones /\ fn_call.css # <<>>) => (fn_ret.raised <=> ~IsPacePair(fn_call.css))

\* C24: calculate_phases gives each phase name one fixed focus string: the phases of
\* any two race dates that have the same name have the same focus.
C24_FocusFixedPerName ==
    CalledPhases =>
        \A race_days \in (-PastDays)..MaxRaceDays :
            \A k \in 1..Len(fn_ret.phases), j \in 1..Len(calculate_phases(race_days)) :
                fn_ret.phases[k].name = calculate_phases(race_days)[j].name
                    => fn_ret.phases[k].focus = calculate_phases(race_days)[j].focus

\* the sessions of a week without what names the week: the week field and the id
WithoutWeek(s) ==
    [day |-> s.day, sport |-> s.sport, zone |-> s.zone, zone_label |-> s.zone_label,
     duration_minutes |-> s.duration_minutes, description |-> s.description]

\* C26: two weeks of one generate_plan result that are both recovery weeks (multiples
\* of 4) or both not have the same number of sessions, equal in day, sport, zone,
\* zone_label, duration_minutes and description; the ids differ in the week part only.
C26_SameKindWeeksAlike ==
    \A a \in WeeksBuilt, b \in WeeksBuilt :
        ((a % 4 = 0) <=> (b % 4 = 0)) =>
            LET A == WeekOf(sessions, a)
                B == WeekOf(sessions, b)
            IN  /\ Len(A) = Len(B)
                /\ \A k \in 1..Len(A) :
                      /\ WithoutWeek(A[k]) = WithoutWeek(B[k])
                      /\ A[k].id = "w" \o ToString(a) \o "_d" \o ToString(k) \o "_" \o A[k].sport
                      /\ B[k].id = "w" \o ToString(b) \o "_d" \o ToString(k) \o "_" \o B[k].sport

\* eight weeks of seven sessions: two recovery weeks, shorter than the six others
C26_TwoWeeksOfEachKind ==
    /\ pc = "done"
    /\ profile.days_available = 7
    /\ Len(plan.sessions) = 56
    /\ WeekTotal(plan.sessions, 4) = WeekTotal(plan.sessions, 8)
    /\ WeekTotal(plan.sessions, 1) = WeekTotal(plan.sessions, 5)
    /\ WeekTotal(plan.sessions, 4) < WeekTotal(plan.sessions, 1)

\* C27: with days_available in 1..7 no session of generate_plan has zone 4 or 5,
\* zone 3 occurs only with days_available >= 4, and with days_available <= 3 every
\* session has zone 1 or 2.
C27_NoHardZonesUpToSevenDays ==
    profile.days_available \in 1..7 =>
        \A k \in 1..Len(sessions) :
            /\ sessions[k].zone \notin {4, 5}
            /\ sessions[k].zone = 3 => profile.days_available >= 4
            /\ profile.days_available <= 3 => sessions[k].zone \in {1, 2}

\* a returned plan of seven sessions a week, the last two of a normal week in zone 3
C27_SevenDaysTopAtZoneThree ==
    /\ pc = "done"
    /\ profile.days_available = 7
    /\ Len(plan.sessions) >= 7
    /\ plan.sessions[5].zone = 2
    /\ plan.sessions[6].zone = 3
    /\ plan.sessions[7].zone = 3

\* C28: for days_available in 1..7 and distinct strongest and weakest, the weakest
\* discipline appears in the sequence of _distribute_sports at least as often as the
\* middle one, the middle one at least as often as the strongest, and the first slot
\* is the weakest discipline.
C28_BiasedTowardWeakest ==
    (/\ fn_call.fn = "_distribute_sports"
     /\ fn_call.days_available \in 1..7
     /\ fn_call.strongest # fn_call.weakest)
        => LET middle == CHOOSE s \in Disciplines : s # fn_call.strongest /\ s # fn_call.weakest
           IN  /\ CountOf(fn_ret.sports, fn_call.weakest) >= CountOf(fn_ret.sports, middle)
               /\ CountOf(fn_ret.sports, middle) >= CountOf(fn_ret.sports, fn_call.strongest)
               /\ fn_ret.sports[1] = fn_call.weakest

\* six days: three of the weakest, two of the middle, one of the strongest discipline
C28_SixDaysThreeTwoOne ==
    /\ fn_call.fn = "_distribute_sports"
    /\ fn_call.days_available = 6
    /\ fn_call.strongest = "bike"
    /\ fn_call.weakest = "swim"
    /\ fn_ret.sports = <<"swim", "run", "bike", "swim", "run", "swim">>

\* the name a phase of the agent's output goes by, under "phase_name" or its alias
NameOfRaw(p) == IF p.name_key \in {"phase_name", "name"} THEN p.phase_name ELSE ""

\* the phases that are the first of their name, as PhaseBlueprint values
FirstOfEachName(phases) ==
    LET kept == SelectSeq([k \in 1..Len(phases) |-> k],
                          LAMBDA k : \A j \in 1..(k - 1) : NameOfRaw(phases[j]) # NameOfRaw(phases[k]))
    IN  [i \in 1..Len(kept) |-> [phase_name |-> phases[kept[i]].phase_name,
                                   weeks |-> phases[kept[i]].weeks]]

\* C23: a PlanBlueprint has total_weeks = the sum of its phases' weeks: constructing
\* one with another total_weeks is rejected, and _parse_blueprint replaces whatever
\* total_weeks its input carried by the sum of the weeks of the phases that are the
\* first of their phase_name, which are the phases of the blueprint.
C23_TotalIsSumOfPhaseWeeks ==
    /\ fn_call.fn = "PlanBlueprint" =>
          /\ ~fn_ret.raised =>
                fn_ret.blueprint.total_weeks = SumSeq(WeeksOf(fn_ret.blueprint.phases))
          /\ fn_call.total_weeks # SumSeq(WeeksOf(fn_call.phases)) => fn_ret.raised
    /\ (fn_call.fn = "_parse_blueprint" /\ ~fn_ret.raised) =>
          /\ fn_ret.blueprint.phases = FirstOfEachName(fn_call.phases)
          /\ fn_ret.blueprint.total_weeks = SumSeq(WeeksOf(FirstOfEachName(fn_call.phases)))

\* Base 2, Base 1 and Taper 1 with total_weeks = 5 parse to Base 2, Taper 1 with total_weeks = 3
C23_DuplicateDroppedTotalCorrected ==
    /\ fn_call.fn = "_parse_blueprint"
    /\ fn_call.phases = << RawPhase("phase_name", "Base", TRUE, 2),
                           RawPhase("phase_name", "Base", TRUE, 1),
                           RawPhase("name", "Taper", TRUE, 1) >>
    /\ fn_call.total_weeks = 5
    /\ ~fn_ret.raised
    /\ fn_ret.blueprint.total_weeks = 3
    /\ Len(fn_ret.blueprint.phases) = 2

\* a response that is a JSON call to a name in TOOLS
IsToolCall(text) ==
    /\ text.kind \in {"json_tool", "embedded_tool"}
    /\ text.hashable
    /\ text.tool \in TOOLS

\* at most 3 tools and 4 responses; every response but the last was a call of a tool
\* in TOOLS, and the k-th tool executed is the one the k-th response named; the
\* response returned lists the executed tools in order
C30_ToolLoopBounded ==
    /\ Len(executed) <= 3
    /\ Len(llm_history) <= 4
    /\ \A k \in 1..(Len(llm_history) - 1) : IsToolCall(llm_history[k])
    /\ \A k \in 1..Len(executed) :
          /\ k <= Len(llm_history)
          /\ IsToolCall(llm_history[k])
          /\ executed[k] = llm_history[k].tool
    /\ chat_pc = "done" =>
          /\ tools_used = executed
          /\ Len(tools_used) <= 3
          /\ Len(executed) = Len(llm_history) - 1 \/ Len(executed) = 3

\* C30: chat_message always terminates, and its tool loop is bounded: whatever the LLM
\* answers it executes at most 3 tools and makes at most 4 LLM calls, it stops at the
\* first response that is no JSON call to a name in TOOLS, and tools_used lists the
\* executed tool names in the order of execution.
C30_ChatTerminatesBounded ==
    /\ []C30_ToolLoopBounded
    /\ <>(chat_pc \in {"done", "raised"})

\* three tools run and the fourth response asks for one more: the loop is over
C30_ThreeToolsThenStop ==
    /\ chat_pc = "done"
    /\ tools_used = <<"get_current_plan", "get_user_zones", "get_athlete_profile">>
    /\ Len(llm_history) = 4
    /\ IsToolCall(llm_history[4])

\* a profile with the values of overrides in place of its own
UpdatedWith(p, overrides) ==
    [p EXCEPT !.race_days = IF "race_date" \in overrides.keys THEN overrides.race_days ELSE @,
              !.weekly_hours = IF "weekly_hours" \in overrides.keys
                               THEN overrides.weekly_hours ELSE @,
              !.days_available = IF "days_available" \in overrides.keys
                                 THEN overrides.days_available ELSE @]

\* C25: in POST /plans/architect the profile passed to run_plan_architect is the
\* stored profile updated with the request's overrides.
C25_OverridesReplaceProfile ==
    arch.pc \in {"agent", "done"} /\ athlete_profiles(arch.user_id).found
        => arch.agent_profile = UpdatedWith(athlete_profiles(arch.user_id).data, arch.overrides)

\* no generate call is between its first and its last statement
NoCallInFlight == \A r \in Requests : gen[r].pc \in {"idle", "done"}

PlansOf(user_id) == {row \in plans_table : row.user_id = user_id}

====
